---------------------------- MODULE Spec2Model ----------------------------
(****************************************************************************)
(* Questionnaire template / project-instance synchronization of             *)
(* server/app.js, with the answer mapping of the client page                *)
(* ProjectQuestionnairesPage.js.                                            *)
(*                                                                          *)
(* Ids are naturals; a new id is one above every stored id (an ObjectId is  *)
(* never reused); Undefined (0) stands for an absent id.  An option's "text"*)
(* stands for its text and imageUrl, which every handler copies together.   *)
(* The display snapshots stored with an answer (questionText, option name,  *)
(* imageUrl) are never read by any handler and are left out.                *)
(****************************************************************************)
EXTENDS Integers, Sequences, FiniteSets, TLC

VARIABLES templates, projects, resp, served, inflight

vars == <<templates, projects, resp, served, inflight>>

-----------------------------------------------------------------------------
(* Bounds and input sets *)

\* the server handles at most this many requests in a run
MaxRequests == 4
\* the same, for the runs of the style questionnaire
MaxStyleRequests == 6
MaxBatchRequests == 4
MaxRawRequests == 4
MaxOwnerRequests == 4
MaxKeyRequests == 4
\* the same, for the runs in which requests overlap
MaxRaceRequests == 3

\* an absent id (undefined)
Undefined == 0

\* the designer who sends the requests; the text values typed into forms
\* and drafts
Users == {1}
Texts == {"a", "b"}

-----------------------------------------------------------------------------
(* Small helpers *)

Max(S) == CHOOSE x \in S : \A y \in S : y <= x

Range(s) == {s[i] : i \in 1..Len(s)}

\* JavaScript `a || b` on ids and strings
Or(a, b) == IF a # Undefined THEN a ELSE b

\* new Map(entries).get(k): of several entries with one key the last one stays
\* the entries being keyed by their field, or by `field || _id`
MapGet(entries, field, orId, k) ==
    LET key(e) == IF orId THEN Or(e[field], e._id) ELSE e[field]
        idx == {i \in 1..Len(entries) : key(entries[i]) = k}
    IN  IF idx = {} THEN <<>> ELSE <<entries[Max(idx)]>>

\* Find on `e[field] === v`, an ObjectId and a string: no element passes
FindUnconverted(s, field, v) == 0

\* Array.prototype.find / findIndex on `String(e[field]) === String(v)`: the
\* first element that passes
Find(s, field, v) ==
    LET idx == {i \in 1..Len(s) : s[i][field] = v}
    IN  IF idx = {} THEN 0 ELSE CHOOSE i \in idx : \A j \in idx : i <= j

\* RemoveAt that removes the elements after the one at i as well
RemoveFrom(s, i) == SubSeq(s, 1, i - 1)

RemoveAt(s, i) == [j \in 1..(Len(s) - 1) |-> IF j < i THEN s[j] ELSE s[j + 1]]

HasSourceQ(q) == q.sourceQuestionId # Undefined
HasSourceO(o) == o.sourceOptionId # Undefined
NoSourceQ(q) == q.sourceQuestionId = Undefined
NoSourceO(o) == o.sourceOptionId = Undefined

-----------------------------------------------------------------------------
(* Merge helpers of server/app.js *)

\* a template option copied into an instance; its _id is set when it is stored
FreshOption(to) ==
    [_id |-> Undefined, sourceOptionId |-> to._id, text |-> to.text]

\* FreshQuestion without the stamp of its template question
FreshQuestionUnstamped(tq) ==
    [_id |-> Undefined, sourceQuestionId |-> Undefined, text |-> tq.text,
     multiple |-> tq.multiple,
     options |-> [j \in 1..Len(tq.options) |-> FreshOption(tq.options[j])]]

\* a template question copied into an instance
FreshQuestion(tq) ==
    [_id |-> Undefined, sourceQuestionId |-> tq._id, text |-> tq.text,
     multiple |-> tq.multiple,
     options |-> [j \in 1..Len(tq.options) |-> FreshOption(tq.options[j])]]

\* MergedOption that stamps the option with its own local id
MergedOptionOwnId(existingO, to) ==
    [existingO EXCEPT !.sourceOptionId = existingO._id, !.text = to.text]

\* MergedOption that does not carry the local id over
MergedOptionNewId(existingO, to) ==
    [existingO EXCEPT !._id = Undefined, !.sourceOptionId = Or(@, to._id),
                      !.text = to.text]

\* { ...existingO, sourceOptionId: existingO.sourceOptionId || to._id, text, imageUrl }
MergedOption(existingO, to) ==
    [existingO EXCEPT !.sourceOptionId = Or(@, to._id), !.text = to.text]

mergeInstanceQuestionsKeepingIds(existingQuestions, templateQuestions) ==
    [i \in 1..Len(templateQuestions) |->
        LET tq == templateQuestions[i]
            found == MapGet(existingQuestions, "sourceQuestionId", TRUE, tq._id)
        IN  IF found = <<>> THEN FreshQuestion(tq)
            ELSE LET existingQ == found[1]
                     mergedOptions ==
                        [j \in 1..Len(tq.options) |->
                            LET to == tq.options[j]
                                fo == MapGet(existingQ.options, "sourceOptionId", TRUE, to._id)
                            IN  IF fo = <<>> THEN FreshOption(to)
                                ELSE MergedOption(fo[1], to)]
                 IN  [existingQ EXCEPT !.sourceQuestionId = Or(@, tq._id),
                                       !.text = tq.text,
                                       !.multiple = tq.multiple,
                                       !.options = mergedOptions]]

\* the sync merge done with the merge of the assign route
mergeTemplateIntoInstanceOnly(existingQuestions, templateQuestions) ==
    mergeInstanceQuestionsKeepingIds(existingQuestions, templateQuestions)

\* the sync merge with the project's own questions put first
mergeTemplateIntoInstanceProjectFirst(existingQuestions, templateQuestions) ==
    SelectSeq(existingQuestions, NoSourceQ)
        \o mergeInstanceQuestionsKeepingIds(
                SelectSeq(existingQuestions, HasSourceQ), templateQuestions)

mergeTemplateIntoInstanceKeepProjectOnly(existingQuestions, templateQuestions) ==
    LET sourced == SelectSeq(existingQuestions, HasSourceQ)
        mergedFromTemplate ==
            [i \in 1..Len(templateQuestions) |->
                LET tq == templateQuestions[i]
                    found == MapGet(sourced, "sourceQuestionId", FALSE, tq._id)
                IN  IF found = <<>> THEN FreshQuestion(tq)
                    ELSE LET existingQ == found[1]
                             sourcedO == SelectSeq(existingQ.options, HasSourceO)
                             mergedOptionsFromTemplate ==
                                [j \in 1..Len(tq.options) |->
                                    LET to == tq.options[j]
                                        fo == MapGet(sourcedO, "sourceOptionId", FALSE, to._id)
                                    IN  IF fo = <<>> THEN FreshOption(to)
                                        ELSE MergedOption(fo[1], to)]
                             projectOnlyOptions ==
                                SelectSeq(existingQ.options, NoSourceO)
                         IN  [existingQ EXCEPT
                                !.sourceQuestionId = Or(@, tq._id),
                                !.text = tq.text,
                                !.multiple = tq.multiple,
                                !.options = mergedOptionsFromTemplate
                                                \o projectOnlyOptions]]
        projectOnlyQuestions == SelectSeq(existingQuestions, NoSourceQ)
    IN  mergedFromTemplate \o projectOnlyQuestions

-----------------------------------------------------------------------------
(* Storing subdocuments: Mongoose gives an _id to each one that has none *)

MissingInOptions(os, j) ==
    Cardinality({k \in 1..(j - 1) : os[k]._id = Undefined})

MissingInQuestion(q) ==
    (IF q._id = Undefined THEN 1 ELSE 0)
        + MissingInOptions(q.options, Len(q.options) + 1)

RECURSIVE MissingBefore(_, _)
MissingBefore(qs, i) ==
    IF i <= 1 THEN 0
    ELSE MissingBefore(qs, i - 1) + MissingInQuestion(qs[i - 1])

MissingIds(qs) == MissingBefore(qs, Len(qs) + 1)

CastQuestions(qs, next) ==
    [i \in 1..Len(qs) |->
        LET q == qs[i]
            base == next + MissingBefore(qs, i)
            obase == base + (IF q._id = Undefined THEN 1 ELSE 0)
        IN  [q EXCEPT
                !._id = IF @ = Undefined THEN base ELSE @,
                !.options = [j \in 1..Len(q.options) |->
                    IF q.options[j]._id = Undefined
                    THEN [q.options[j] EXCEPT
                            !._id = obase + MissingInOptions(q.options, j)]
                    ELSE q.options[j]]]]

-----------------------------------------------------------------------------
(* State after construction: the designer's template with one question and *)
(* one option, and projects with no questionnaire.                          *)

TemplateIds == {1}

InitTemplate ==
    [createdBy |-> 1, title |-> "a", description |-> "", roomType |-> "",
     questions |-> <<[_id |-> 2, text |-> "a", multiple |-> TRUE,
                      options |-> <<[_id |-> 3, text |-> "a"]>>]>>]

NoProject == [createdBy |-> 1, designQuestionnaires |-> <<>>]

\* resp is the server's log of the last request and its response: the
\* route, its parameters, the status, the counts a sync returns, and whether
\* the request repeats the one before it
NoReply ==
    [op |-> "none", status |-> 0, mode |-> "", templateId |-> Undefined,
     projectId |-> Undefined, updatedProjects |-> 0, skippedCustomized |-> 0,
     again |-> FALSE]

\* SyncReply with the two counts in each other's place
SyncReplySwapped(status, t, mode, updatedCount, skipped) ==
    [op |-> "sync", status |-> status, mode |-> mode, templateId |-> t,
     projectId |-> Undefined, updatedProjects |-> skipped,
     skippedCustomized |-> updatedCount,
     again |-> (resp.op = "sync" /\ resp.mode = mode /\ resp.templateId = t)]

SyncReply(status, t, mode, updatedCount, skipped) ==
    [op |-> "sync", status |-> status, mode |-> mode, templateId |-> t,
     projectId |-> Undefined, updatedProjects |-> updatedCount,
     skippedCustomized |-> skipped,
     again |-> (resp.op = "sync" /\ resp.mode = mode /\ resp.templateId = t)]

Reply(op, status, p, t) ==
    [NoReply EXCEPT !.op = op, !.status = status, !.projectId = p,
                    !.templateId = t,
                    !.again = (resp.op = op /\ resp.projectId = p
                                /\ resp.templateId = t)]

\* inflight holds the handlers that are between their read and their save:
\* at most one sync and one request on a project.  The handlers of the
\* other sections run from their read to their reply with no other request
\* in between, and leave nothing in flight.
Idle == [op |-> "none"]

NothingInFlight == [sync |-> Idle, request |-> Idle]

Init ==
    /\ templates = [t \in TemplateIds |-> InitTemplate]
    /\ projects = [p \in {1} |-> NoProject]
    /\ resp = NoReply
    /\ served = 0
    /\ inflight = NothingInFlight

-----------------------------------------------------------------------------
(* Lookups shared by the handlers *)

\* ProjectFound without the owner
ProjectFoundAnyOwner(p, u) == p \in DOMAIN projects

\* ProjectModel.findOne({ _id, createdBy })
ProjectFound(p, u) == p \in DOMAIN projects /\ projects[p].createdBy = u

\* QuestionnaireTemplate.findOne({ _id, createdBy })
TemplateFound(t, u) == t \in DOMAIN templates /\ templates[t].createdBy = u

Instances(p) == projects[p].designQuestionnaires

AllInstances == UNION {Range(Instances(p)) : p \in DOMAIN projects}

\* new Date(): later than every stamp stored so far
Now == 1 + Max({0} \cup {inst.syncedAt : inst \in AllInstances})

\* every id stored anywhere: in the templates, in the instances and in the
\* keys of the stored answers
QuestionIds(qs) ==
    UNION {{qs[i]._id} \cup {qs[i].options[j]._id : j \in 1..Len(qs[i].options)} :
            i \in 1..Len(qs)}

SourceIds(qs) ==
    UNION {{qs[i].sourceQuestionId}
            \cup {qs[i].options[j].sourceOptionId : j \in 1..Len(qs[i].options)} :
            i \in 1..Len(qs)}

AnswerIds(answers) ==
    UNION {{answers[i].questionId} \cup Range(answers[i].selectedOptions) :
            i \in 1..Len(answers)}

UsedIds ==
    DOMAIN templates
    \cup UNION {QuestionIds(templates[t].questions) : t \in DOMAIN templates}
    \cup UNION {{inst._id} \cup QuestionIds(inst.questions)
                  \cup SourceIds(inst.questions) \cup AnswerIds(inst.answers) :
                  inst \in AllInstances}

\* a new ObjectId: one that is stored nowhere.  Ids are only ever compared
\* for equality with stored ids, so the first id above all stored ones
\* stands for any new one.
nextId == 1 + Max(UsedIds)

SetInstances(p, insts) ==
    [projects EXCEPT ![p].designQuestionnaires = insts]

-----------------------------------------------------------------------------
(* POST /api/projects/:id/questionnaire/assign *)

\* NewInstance marked as customized
NewInstanceCustomized(template, t, next, now) ==
    [_id |-> next, templateId |-> t, title |-> template.title,
     description |-> template.description, roomType |-> template.roomType,
     syncedAt |-> now, isCustomized |-> TRUE,
     questions |-> CastQuestions(
        [i \in 1..Len(template.questions) |-> FreshQuestion(template.questions[i])],
        next + 1),
     answers |-> <<>>]

\* the instance pushed for a template that the project does not hold yet
NewInstance(template, t, next, now) ==
    [_id |-> next, templateId |-> t, title |-> template.title,
     description |-> template.description, roomType |-> template.roomType,
     syncedAt |-> now, isCustomized |-> FALSE,
     questions |-> CastQuestions(
        [i \in 1..Len(template.questions) |-> FreshQuestion(template.questions[i])],
        next + 1),
     answers |-> <<>>]

\* Reassigned with the customization flag cleared
ReassignedResetFlag(existing, template, next, now) ==
    [existing EXCEPT
        !.title = template.title,
        !.description = template.description,
        !.roomType = template.roomType,
        !.questions = CastQuestions(
            mergeInstanceQuestionsKeepingIds(existing.questions, template.questions),
            next),
        !.syncedAt = now,
        !.isCustomized = FALSE]

\* Reassigned with the answers reset
ReassignedClearAnswers(existing, template, next, now) ==
    [existing EXCEPT
        !.title = template.title,
        !.description = template.description,
        !.roomType = template.roomType,
        !.questions = CastQuestions(
            mergeInstanceQuestionsKeepingIds(existing.questions, template.questions),
            next),
        !.syncedAt = now,
        !.answers = <<>>]

\* Reassigned with the merge of the sync route, which keeps project-only content
ReassignedKeepProjectOnly(existing, template, next, now) ==
    [existing EXCEPT
        !.title = template.title,
        !.description = template.description,
        !.roomType = template.roomType,
        !.questions = CastQuestions(
            mergeTemplateIntoInstanceKeepProjectOnly(existing.questions,
                                                     template.questions),
            next),
        !.syncedAt = now]

\* the update of an instance the project already holds
Reassigned(existing, template, next, now) ==
    [existing EXCEPT
        !.title = template.title,
        !.description = template.description,
        !.roomType = template.roomType,
        !.questions = CastQuestions(
            mergeInstanceQuestionsKeepingIds(existing.questions, template.questions),
            next),
        !.syncedAt = now]

Assign(u, p, templateId, fail) ==
    IF ~ProjectFound(p, u)
    THEN /\ resp' = Reply("assign", 404, p, templateId)
         /\ UNCHANGED <<templates, projects>>
    ELSE IF templateId = Undefined
    THEN IF fail
         THEN /\ resp' = Reply("assign", 500, p, templateId)
              /\ UNCHANGED <<templates, projects>>
         ELSE /\ projects' = SetInstances(p, <<>>)
              /\ resp' = Reply("assign", 200, p, templateId)
              /\ UNCHANGED templates
    ELSE IF ~TemplateFound(templateId, u)
    THEN /\ resp' = Reply("assign", 404, p, templateId)
         /\ UNCHANGED <<templates, projects>>
    ELSE
        LET template == templates[templateId]
            idx == Find(Instances(p), "templateId", templateId)
            updated ==
                IF idx = 0
                THEN Append(Instances(p),
                            NewInstance(template, templateId, nextId, Now))
                ELSE [Instances(p) EXCEPT
                        ![idx] = Reassigned(@, template, nextId, Now)]
        IN  IF fail
            THEN /\ resp' = Reply("assign", 500, p, templateId)
                 /\ UNCHANGED <<templates, projects>>
            ELSE /\ projects' = SetInstances(p, updated)
                 /\ resp' = Reply("assign", 200, p, templateId)
                 /\ UNCHANGED templates

-----------------------------------------------------------------------------
(* POST /api/questionnaires/templates/:templateId/sync-projects *)

RECURSIVE SetToSeq(_)
\* the elements of a set of ids in increasing order (storage-retrieval order)
SetToSeq(S) ==
    IF S = {} THEN <<>> ELSE LET m == Max(S) IN Append(SetToSeq(S \ {m}), m)

\* ProjectModel.find({ createdBy, "designQuestionnaires.templateId": t })
ProjectsUsing(t, u) ==
    SetToSeq({p \in DOMAIN projects :
        /\ projects[p].createdBy = u
        /\ \E i \in 1..Len(Instances(p)) : Instances(p)[i].templateId = t})

\* SkipInstance with the mode test inverted, dropped, or without any skip
SkipInstanceInForce(inst, mode) == mode = "force" /\ inst.isCustomized

SkipInstanceAlways(inst, mode) == inst.isCustomized

SkipInstanceNever(inst, mode) == FALSE

\* safe mode leaves a customized instance alone
SkipInstance(inst, mode) == mode = "safe" /\ inst.isCustomized

\* SyncedInstance without the reset of the customization flag
SyncedInstanceKeepFlag(inst, template, mode, next, now) ==
    [inst EXCEPT
        !.title = template.title,
        !.description = template.description,
        !.roomType = template.roomType,
        !.questions = CastQuestions(
            mergeTemplateIntoInstanceKeepProjectOnly(inst.questions,
                                                     template.questions),
            next),
        !.syncedAt = now]

\* the body of the inner loop for an instance that is not skipped
SyncedInstance(inst, template, mode, next, now) ==
    [inst EXCEPT
        !.title = template.title,
        !.description = template.description,
        !.roomType = template.roomType,
        !.questions = CastQuestions(
            mergeTemplateIntoInstanceKeepProjectOnly(inst.questions,
                                                     template.questions),
            next),
        !.syncedAt = now,
        !.isCustomized = IF mode = "force" THEN FALSE ELSE @]

RECURSIVE SyncInstancesOfAny(_, _, _, _, _, _)
\* SyncInstances without the test of the instance's templateId
SyncInstancesOfAny(insts, t, template, mode, next, now) ==
    IF insts = <<>>
    THEN [insts |-> <<>>, changed |-> FALSE, skipped |-> 0, next |-> next]
    ELSE
        LET r == SyncInstancesOfAny(SubSeq(insts, 1, Len(insts) - 1), t,
                                    template, mode, next, now)
            inst == insts[Len(insts)]
        IN  IF SkipInstance(inst, mode)
            THEN [r EXCEPT !.insts = Append(@, inst), !.skipped = @ + 1]
            ELSE [insts |-> Append(r.insts,
                        SyncedInstance(inst, template, mode, r.next, now)),
                  changed |-> TRUE,
                  skipped |-> r.skipped,
                  next |-> r.next + MissingIds(
                        mergeTemplateIntoInstanceKeepProjectOnly(
                            inst.questions, template.questions))]

RECURSIVE SyncInstances(_, _, _, _, _, _)
\* the inner loop over the instances of one project, in array order
SyncInstances(insts, t, template, mode, next, now) ==
    IF insts = <<>>
    THEN [insts |-> <<>>, changed |-> FALSE, skipped |-> 0, next |-> next]
    ELSE
        LET r == SyncInstances(SubSeq(insts, 1, Len(insts) - 1), t, template,
                               mode, next, now)
            inst == insts[Len(insts)]
        IN  IF inst.templateId # t
            THEN [r EXCEPT !.insts = Append(@, inst)]
            ELSE IF SkipInstance(inst, mode)
            THEN [r EXCEPT !.insts = Append(@, inst), !.skipped = @ + 1]
            ELSE [insts |-> Append(r.insts,
                        SyncedInstance(inst, template, mode, r.next, now)),
                  changed |-> TRUE,
                  skipped |-> r.skipped,
                  next |-> r.next + MissingIds(
                        mergeTemplateIntoInstanceKeepProjectOnly(
                            inst.questions, template.questions))]

RECURSIVE SyncLoopKeepsFailed(_, _, _, _, _, _, _)
\* SyncLoop in which the project whose save throws is stored all the same
SyncLoopKeepsFailed(order, k, t, template, mode, failing, now) ==
    IF k = 0
    THEN [projects |-> projects, next |-> nextId, updatedCount |-> 0,
          skippedCustomized |-> 0, thrown |-> FALSE]
    ELSE
        LET r == SyncLoopKeepsFailed(order, k - 1, t, template, mode, failing, now)
            p == order[k]
            s == SyncInstances(Instances(p), t, template, mode, r.next, now)
        IN  IF r.thrown THEN r
            ELSE IF ~s.changed
            THEN [r EXCEPT !.skippedCustomized = @ + s.skipped]
            ELSE [projects |-> [r.projects EXCEPT
                                    ![p].designQuestionnaires = s.insts],
                  next |-> s.next,
                  updatedCount |-> r.updatedCount + (IF p = failing THEN 0 ELSE 1),
                  skippedCustomized |-> r.skippedCustomized + s.skipped,
                  thrown |-> (p = failing)]

RECURSIVE SyncLoop(_, _, _, _, _, _, _)
\* the outer loop over the first k projects; project.save() of `failing` throws,
\* which leaves the loop and the handler's try block
SyncLoop(order, k, t, template, mode, failing, now) ==
    IF k = 0
    THEN [projects |-> projects, next |-> nextId, updatedCount |-> 0,
          skippedCustomized |-> 0, thrown |-> FALSE]
    ELSE
        LET r == SyncLoop(order, k - 1, t, template, mode, failing, now)
            p == order[k]
            s == SyncInstances(Instances(p), t, template, mode, r.next, now)
        IN  IF r.thrown THEN r
            ELSE IF ~s.changed
            THEN [r EXCEPT !.skippedCustomized = @ + s.skipped]
            ELSE IF p = failing
            THEN [r EXCEPT !.thrown = TRUE, !.next = s.next,
                           !.skippedCustomized = @ + s.skipped]
            ELSE [projects |-> [r.projects EXCEPT
                                    ![p].designQuestionnaires = s.insts],
                  next |-> s.next,
                  updatedCount |-> r.updatedCount + 1,
                  skippedCustomized |-> r.skippedCustomized + s.skipped,
                  thrown |-> FALSE]

Sync(u, t, mode, failing) ==
    IF ~TemplateFound(t, u)
    THEN /\ resp' = SyncReply(404, t, mode, 0, 0)
         /\ UNCHANGED <<templates, projects>>
    ELSE
        LET order == ProjectsUsing(t, u)
            r == SyncLoop(order, Len(order), t, templates[t], mode, failing, Now)
        IN  /\ projects' = r.projects
            /\ resp' =
                IF r.thrown
                THEN SyncReply(500, t, mode, 0, 0)
                ELSE SyncReply(200, t, mode, r.updatedCount, r.skippedCustomized)
            /\ UNCHANGED templates

-----------------------------------------------------------------------------
(* PUT /api/projects/:projectId/questionnaires/:instanceId *)

\* a request body: `has` names the fields that are not undefined
EditBody(has, title, description, roomType, questions) ==
    [has |-> has, title |-> title, description |-> description,
     roomType |-> roomType, questions |-> questions]

\* EditedInstance that sets every field, an absent one to its empty value
EditedInstanceAllFields(inst, body, next) ==
    [inst EXCEPT
        !.title = body.title,
        !.description = body.description,
        !.roomType = body.roomType,
        !.questions = CastQuestions(body.questions, next),
        !.isCustomized = TRUE]

EditedInstance(inst, body, next) ==
    [inst EXCEPT
        !.title = IF "title" \in body.has THEN body.title ELSE @,
        !.description = IF "description" \in body.has THEN body.description ELSE @,
        !.roomType = IF "roomType" \in body.has THEN body.roomType ELSE @,
        !.questions = IF "questions" \in body.has
                      THEN CastQuestions(body.questions, next) ELSE @,
        !.isCustomized = TRUE]

Edit(u, p, instanceId, body, fail) ==
    LET idx == IF ProjectFound(p, u)
               THEN Find(Instances(p), "_id", instanceId) ELSE 0
    IN  IF idx = 0
        THEN /\ resp' = Reply("edit", 404, p, Undefined)
             /\ UNCHANGED <<templates, projects>>
        ELSE IF fail
        THEN /\ resp' = Reply("edit", 500, p, Undefined)
             /\ UNCHANGED <<templates, projects>>
        ELSE /\ projects' = SetInstances(p,
                    [Instances(p) EXCEPT ![idx] = EditedInstance(@, body, nextId)])
             /\ resp' = Reply("edit", 200, p, Undefined)
             /\ UNCHANGED templates

-----------------------------------------------------------------------------
(* DELETE /api/projects/:projectId/questionnaires/:instanceId *)

\* findIndex by _id, then by templateId
RemoveIndex(insts, instanceId) ==
    LET byId == Find(insts, "_id", instanceId)
    IN  IF byId # 0 THEN byId
        ELSE Find(insts, "templateId", instanceId)

Remove(u, p, instanceId, fail) ==
    LET idx == IF ProjectFound(p, u)
               THEN RemoveIndex(Instances(p), instanceId) ELSE 0
    IN  IF idx = 0
        THEN /\ resp' = Reply("remove", 404, p, Undefined)
             /\ UNCHANGED <<templates, projects>>
        ELSE IF fail
        THEN /\ resp' = Reply("remove", 500, p, Undefined)
             /\ UNCHANGED <<templates, projects>>
        ELSE /\ projects' = SetInstances(p, RemoveAt(Instances(p), idx))
             /\ resp' = Reply("remove", 200, p, Undefined)
             /\ UNCHANGED templates

-----------------------------------------------------------------------------
(* POST /api/projects/:id/questionnaire/answers *)

\* An entry of the request's answers is a record [present, questionId, listed,
\* selectedOptions, freeText]: present is false for a null entry, listed is
\* Array.isArray(selectedOptions), questionId is Undefined when it is absent.

\* KeepAnswer that drops null entries only
KeepAnswerPresent(a) == a.present

\* an entry is kept when it is not null and has free text or at least one
\* selected option
KeepAnswer(a) ==
    a.present /\ (a.freeText # "" \/ (a.listed /\ Len(a.selectedOptions) > 0))

\* a kept entry as it is stored; an absent questionId is stored as ""
StoredAnswer(a) ==
    [questionId |-> a.questionId,
     selectedOptions |-> IF a.listed THEN a.selectedOptions ELSE <<>>,
     freeText |-> a.freeText]

\* instance.answers as stored from the request's answers
StoredAnswers(answers) ==
    LET kept == SelectSeq(answers, KeepAnswer)
    IN  [i \in 1..Len(kept) |-> StoredAnswer(kept[i])]

\* QuestionnaireAnswerSchema: questionId is required, and "" does not pass
AnswersValid(stored) ==
    \A i \in 1..Len(stored) : stored[i].questionId # Undefined

\* AnswerTarget that is the first instance whatever the templateId
AnswerTargetFirst(insts, templateId) == 1

\* the instance with the given templateId, or else the first one
AnswerTarget(insts, templateId) ==
    LET idx == Find(insts, "templateId", templateId)
    IN  IF idx # 0 THEN idx ELSE 1

SaveAnswers(u, p, templateId, answers, fail) ==
    IF ~ProjectFound(p, u)
    THEN /\ resp' = Reply("answers", 404, p, templateId)
         /\ UNCHANGED <<templates, projects>>
    ELSE IF Len(Instances(p)) = 0
    THEN /\ resp' = Reply("answers", 400, p, templateId)
         /\ UNCHANGED <<templates, projects>>
    ELSE
        LET idx == AnswerTarget(Instances(p), templateId)
            stored == StoredAnswers(answers)
        IN  IF fail \/ ~AnswersValid(stored)
            THEN /\ resp' = Reply("answers", 500, p, templateId)
                 /\ UNCHANGED <<templates, projects>>
            ELSE /\ projects' = SetInstances(p,
                        [Instances(p) EXCEPT ![idx].answers = stored])
                 /\ resp' = Reply("answers", 200, p, templateId)
                 /\ UNCHANGED templates

-----------------------------------------------------------------------------
(* PUT /api/questionnaires/templates/:id *)

\* QuestionnaireTemplateSchema: title, question text and option text are required
TemplateValid(body) ==
    /\ body.title # ""
    /\ \A i \in 1..Len(body.questions) :
        /\ body.questions[i].text # ""
        /\ \A j \in 1..Len(body.questions[i].options) :
            body.questions[i].options[j].text # ""

UpdateTemplate(u, t, body, fail) ==
    IF ~TemplateFound(t, u)
    THEN /\ resp' = Reply("template", 404, Undefined, t)
         /\ UNCHANGED <<templates, projects>>
    ELSE IF fail \/ ~TemplateValid(body)
    THEN /\ resp' = Reply("template", 500, Undefined, t)
         /\ UNCHANGED <<templates, projects>>
    ELSE /\ templates' = [templates EXCEPT
                ![t].title = body.title,
                ![t].description = body.description,
                ![t].roomType = body.roomType,
                ![t].questions = CastQuestions(body.questions, nextId)]
         /\ resp' = Reply("template", 200, Undefined, t)
         /\ UNCHANGED projects

-----------------------------------------------------------------------------
(* Client: answer mapping of ProjectQuestionnairesPage.js *)

getQuestionKey(q) == Or(q.sourceQuestionId, q._id)

getOptionKey(opt) == Or(opt.sourceOptionId, opt._id)

NoEntry == [selectedOptions |-> <<>>, freeText |-> ""]

\* the key under which loadAnswersFromInstance files a stored answer
FinalQKey(instance, a) ==
    LET i == Find(instance.questions, "_id", a.questionId)
    IN  IF i = 0 THEN a.questionId
        ELSE Or(instance.questions[i].sourceQuestionId, a.questionId)

\* the UI map { questionKey: { selectedOptions, freeText } }; a later answer
\* with the same key overwrites an earlier one
loadAnswersFromInstance(instance) ==
    LET ans == instance.answers
        valid == {i \in 1..Len(ans) : ans[i].questionId # Undefined}
        keys == {FinalQKey(instance, ans[i]) : i \in valid}
    IN  [k \in keys |->
            LET i == Max({n \in valid : FinalQKey(instance, ans[n]) = k})
            IN  [selectedOptions |-> ans[i].selectedOptions,
                 freeText |-> ans[i].freeText]]

\* answers[key] || { selectedOptions: [], freeText: "" }
EntryOf(map, key) == IF key \in DOMAIN map THEN map[key] ELSE NoEntry

SetEntry(map, key, entry) ==
    [k \in DOMAIN map \cup {key} |-> IF k = key THEN entry ELSE map[k]]

toggleOption(map, questionKey, optionKey, multiple) ==
    LET existing == EntryOf(map, questionKey)
        isIn == optionKey \in Range(existing.selectedOptions)
        selected ==
            IF multiple
            THEN IF isIn
                 THEN SelectSeq(existing.selectedOptions,
                                LAMBDA id : id # optionKey)
                 ELSE Append(existing.selectedOptions, optionKey)
            ELSE IF isIn THEN <<>> ELSE <<optionKey>>
    IN  SetEntry(map, questionKey, [existing EXCEPT !.selectedOptions = selected])

handleFreeTextChange(map, questionKey, value) ==
    SetEntry(map, questionKey,
             [EntryOf(map, questionKey) EXCEPT !.freeText = value])

\* saveAllAnswers that sends the selections of the map as they are
saveAllAnswersUnfiltered(instance, map) ==
    [i \in 1..Len(instance.questions) |->
        LET q == instance.questions[i]
            entry == EntryOf(map, getQuestionKey(q))
        IN  [present |-> TRUE,
             questionId |-> getQuestionKey(q),
             listed |-> TRUE,
             selectedOptions |-> entry.selectedOptions,
             freeText |-> entry.freeText]]

\* the payload of saveAllAnswers: one entry per question of the instance
saveAllAnswers(instance, map) ==
    [i \in 1..Len(instance.questions) |->
        LET q == instance.questions[i]
            entry == EntryOf(map, getQuestionKey(q))
            chosen == SelectSeq(q.options,
                LAMBDA opt : getOptionKey(opt) \in Range(entry.selectedOptions))
        IN  [present |-> TRUE,
             questionId |-> getQuestionKey(q),
             listed |-> TRUE,
             selectedOptions |-> [j \in 1..Len(chosen) |-> getOptionKey(chosen[j])],
             freeText |-> entry.freeText]]

\* the positions <<question, option>> of a question list
OptionSlots(qs) ==
    UNION {{<<i, j>> : j \in 1..Len(qs[i].options)} : i \in 1..Len(qs)}

\* the maps the page can hold after loading an instance and at most one
\* click or text change
UiMaps(instance) ==
    LET loaded == loadAnswersFromInstance(instance)
        qs == instance.questions
    IN  {loaded}
        \cup {toggleOption(loaded, getQuestionKey(qs[s[1]]),
                           getOptionKey(qs[s[1]].options[s[2]]),
                           qs[s[1]].multiple) : s \in OptionSlots(qs)}
        \cup {handleFreeTextChange(loaded, getQuestionKey(qs[i]), v) :
                i \in 1..Len(qs), v \in {"", "note"}}

\* the payloads the page submits for an instance
ClientPayloads(instance) ==
    {saveAllAnswers(instance, m) : m \in UiMaps(instance)}

\* entries no page sends: null, one without a question key, and one whose
\* selectedOptions is no array, the last two with or without free text
MalformedEntries(instance) ==
    {[present |-> FALSE, questionId |-> Undefined, listed |-> FALSE,
      selectedOptions |-> <<>>, freeText |-> ""]}
    \cup {[present |-> TRUE, questionId |-> Undefined, listed |-> TRUE,
           selectedOptions |-> <<>>, freeText |-> x] : x \in {"", "note"}}
    \cup {[present |-> TRUE, questionId |-> getQuestionKey(instance.questions[i]),
           listed |-> FALSE, selectedOptions |-> <<>>, freeText |-> x] :
            i \in 1..Len(instance.questions), x \in {"", "note"}}

\* a page payload with one malformed entry put before or after it
RawPayloads(instance) ==
    UNION {{<<bad>> \o good, good \o <<bad>>} :
            good \in ClientPayloads(instance),
            bad \in MalformedEntries(instance)}

\* what is posted as answers: the page's payloads ("page"), or those mixed
\* with a malformed entry ("raw")
AnswerMenu(menu, instance) ==
    IF menu = "raw" THEN RawPayloads(instance) ELSE ClientPayloads(instance)

-----------------------------------------------------------------------------
(* Client: the project-only draft of ProjectQuestionnairesPage.js *)

\* addDraftQuestion
DraftAddQuestion(qs) ==
    {Append(qs, [_id |-> Undefined, sourceQuestionId |-> Undefined,
                 text |-> "", multiple |-> TRUE, options |-> <<>>])}

\* removeDraftQuestion
DraftRemoveQuestion(qs) == {RemoveAt(qs, i) : i \in 1..Len(qs)}

\* updateDraftQuestionText
DraftQuestionText(qs) ==
    {[qs EXCEPT ![i].text = x] : i \in 1..Len(qs), x \in Texts} \ {qs}

\* addDraftOption
DraftAddOption(qs) ==
    {[qs EXCEPT ![i].options =
            Append(@, [_id |-> Undefined, sourceOptionId |-> Undefined,
                       text |-> ""])] :
        i \in 1..Len(qs)}

\* removeDraftOption
DraftRemoveOption(qs) ==
    {[qs EXCEPT ![s[1]].options = RemoveAt(@, s[2])] : s \in OptionSlots(qs)}

\* updateDraftOptionText
DraftOptionText(qs) ==
    {[qs EXCEPT ![s[1]].options[s[2]].text = x] :
        s \in OptionSlots(qs), x \in Texts} \ {qs}

\* the drafts saveProjectVersion can send after at most one draft change
Drafts(instance) ==
    LET qs == instance.questions
    IN  {qs} \cup DraftAddQuestion(qs) \cup DraftRemoveQuestion(qs)
             \cup DraftQuestionText(qs) \cup DraftAddOption(qs)
             \cup DraftRemoveOption(qs) \cup DraftOptionText(qs)

\* the request bodies of the project-only edit: the page's draft, or any one
\* of the other fields, or nothing
EditBodies(instance) ==
    {EditBody({"questions"}, "", "", "", d) : d \in Drafts(instance)}
    \cup {EditBody({"title"}, x, "", "", <<>>) : x \in Texts}
    \cup {EditBody({"description"}, "", x, "", <<>>) : x \in Texts}
    \cup {EditBody({"roomType"}, "", "", x, <<>>) : x \in Texts}
    \cup {EditBody({}, "", "", "", <<>>)}

-----------------------------------------------------------------------------
(* Client: the template form of QuestionnaireTemplatesPage.js *)

\* addQuestion, with its text typed in
FormAddQuestion(qs) ==
    {Append(qs, [_id |-> Undefined, text |-> x, multiple |-> TRUE,
                 options |-> <<>>]) : x \in Texts}

FormRemoveQuestion(qs) == {RemoveAt(qs, i) : i \in 1..Len(qs)}

FormQuestionField(qs) ==
    ({[qs EXCEPT ![i].text = x] : i \in 1..Len(qs), x \in Texts}
        \cup {[qs EXCEPT ![i].multiple = ~@] : i \in 1..Len(qs)}) \ {qs}

FormAddOption(qs) ==
    {[qs EXCEPT ![i].options = Append(@, [_id |-> Undefined, text |-> x])] :
        i \in 1..Len(qs), x \in Texts}

FormRemoveOption(qs) ==
    {[qs EXCEPT ![s[1]].options = RemoveAt(@, s[2])] : s \in OptionSlots(qs)}

FormOptionText(qs) ==
    {[qs EXCEPT ![s[1]].options[s[2]].text = x] :
        s \in OptionSlots(qs), x \in Texts} \ {qs}

\* the payloads handleSubmit can send after startEdit and one form change
TemplateForms(template) ==
    LET qs == template.questions
        form == [title |-> template.title, description |-> template.description,
                 roomType |-> template.roomType, questions |-> qs]
    IN  {[form EXCEPT !.questions = n] :
            n \in FormAddQuestion(qs) \cup FormRemoveQuestion(qs)
                  \cup FormQuestionField(qs) \cup FormAddOption(qs)
                  \cup FormRemoveOption(qs) \cup FormOptionText(qs)}
        \cup {[form EXCEPT !.title = x] : x \in Texts}
        \cup {[form EXCEPT !.description = x] : x \in Texts \cup {""}}
        \cup {[form EXCEPT !.roomType = x] : x \in Texts \cup {""}}

-----------------------------------------------------------------------------
(* The system: requests arrive one at a time *)

ProjectIds == DOMAIN projects

\* saveProjectVersion after addDraftQuestion and the typing of its text
StyleEditBodies(instance) ==
    {EditBody({"questions"}, "", "", "",
        Append(instance.questions,
               [_id |-> Undefined, sourceQuestionId |-> Undefined,
                text |-> "Budget note?", multiple |-> TRUE, options |-> <<>>]))}

\* handleSubmit after startEdit and the rename of the first question, a new
\* option on it, or both
StyleForms(template) ==
    LET qs == template.questions
        form == [title |-> template.title, description |-> template.description,
                 roomType |-> template.roomType, questions |-> qs]
        renamed == [qs EXCEPT ![1].text = "Preferred Style?"]
        added(q) == [q EXCEPT ![1].options =
                        Append(@, [_id |-> Undefined, text |-> "Industrial"])]
    IN  IF qs = <<>> THEN {}
        ELSE {[form EXCEPT !.questions = n] :
                    n \in {renamed, added(qs), added(renamed)}}

\* bodies no page sends: the questions of the instance with a copy of one of
\* them added in front or at the end, a new question with the same
\* sourceQuestionId and a text of its own
RawEditBodies(instance) ==
    LET qs == instance.questions
        copy(i, x) == [qs[i] EXCEPT !._id = Undefined, !.text = x,
                                    !.options = <<>>]
    IN  UNION {{EditBody({"questions"}, "", "", "", <<copy(i, x)>> \o qs),
                EditBody({"questions"}, "", "", "", qs \o <<copy(i, x)>>)} :
                i \in 1..Len(qs), x \in Texts}

\* the bodies with any of the four fields the route reads, each field that
\* is present with one new value: a text, or the questions with the text of
\* the first one changed
SubsetEditBodies(instance) ==
    LET qs == instance.questions
        more == IF qs = <<>> THEN <<>> ELSE [qs EXCEPT ![1].text = "b"]
        val(has, f) == IF f \in has THEN "b" ELSE ""
    IN  {EditBody(has, val(has, "title"), val(has, "description"),
                  val(has, "roomType"),
                  IF "questions" \in has THEN more ELSE <<>>) :
            has \in SUBSET {"title", "description", "roomType", "questions"}}

\* what the designer does on the pages: anything ("page"), or the steps of
\* the style questionnaire ("style"); or requests made without the pages
\* ("raw"), or with any subset of the fields ("subset")
EditMenu(menu, instance) ==
    IF menu = "style" THEN StyleEditBodies(instance)
    ELSE IF menu = "raw" THEN RawEditBodies(instance)
    ELSE IF menu = "subset" THEN SubsetEditBodies(instance)
    ELSE EditBodies(instance)

FormMenu(menu, template) ==
    IF menu = "style" THEN StyleForms(template) ELSE TemplateForms(template)

InstanceIds(p) == {Instances(p)[i]._id : i \in 1..Len(Instances(p))}

DoAssign(fails) ==
    \E u \in Users, p \in ProjectIds, t \in DOMAIN templates \cup {Undefined},
       fail \in fails : Assign(u, p, t, fail)

DoSaveAnswers(menu, fails) ==
    \E u \in Users, p \in ProjectIds, fail \in fails :
        \E i \in 1..Len(Instances(p)) :
            \E answers \in AnswerMenu(menu, Instances(p)[i]) :
                SaveAnswers(u, p, Instances(p)[i].templateId, answers, fail)

DoRemove(fails) ==
    \E u \in Users, p \in ProjectIds, fail \in fails :
        \E id \in InstanceIds(p) \cup DOMAIN templates : Remove(u, p, id, fail)

DoEdit(menu, fails) ==
    \E u \in Users, p \in ProjectIds, fail \in fails :
        \E i \in 1..Len(Instances(p)) :
            \E body \in EditMenu(menu, Instances(p)[i]) :
                Edit(u, p, Instances(p)[i]._id, body, fail)

DoUpdateTemplate(menu, fails) ==
    \E u \in Users, t \in DOMAIN templates, fail \in fails :
        \E body \in FormMenu(menu, templates[t]) : UpdateTemplate(u, t, body, fail)

DoSync ==
    \E u \in Users, t \in DOMAIN templates, mode \in {"safe", "force"},
       failing \in ProjectIds \cup {Undefined} : Sync(u, t, mode, failing)

\* one more request is taken while the budget lasts
Serve(budget) ==
    served < budget /\ served' = served + 1 /\ inflight' = inflight

Next ==
    \/ Serve(MaxRequests) /\ DoAssign(BOOLEAN)
    \/ Serve(MaxRequests) /\ DoSaveAnswers("page", BOOLEAN)
    \/ Serve(MaxRequests) /\ DoRemove(BOOLEAN)
    \/ Serve(MaxRequests) /\ DoEdit("page", BOOLEAN)
    \/ Serve(MaxRequests) /\ DoUpdateTemplate("page", BOOLEAN)
    \/ Serve(MaxRequests) /\ DoSync

Spec == Init /\ [][Next]_vars

-----------------------------------------------------------------------------
(* One designer with two projects, every save succeeding but those of a sync,
   and the page edits of the style questionnaire *)

InitBatch ==
    /\ templates = [t \in TemplateIds |-> InitTemplate]
    /\ projects = [p \in {1, 2} |-> NoProject]
    /\ resp = NoReply
    /\ served = 0
    /\ inflight = NothingInFlight

NextBatch ==
    \/ Serve(MaxBatchRequests) /\ DoAssign({FALSE})
    \/ Serve(MaxBatchRequests) /\ DoSaveAnswers("page", {FALSE})
    \/ Serve(MaxBatchRequests) /\ DoRemove({FALSE})
    \/ Serve(MaxBatchRequests) /\ DoEdit("style", {FALSE})
    \/ Serve(MaxBatchRequests) /\ DoUpdateTemplate("style", {FALSE})
    \/ Serve(MaxBatchRequests) /\ DoSync

SpecBatch == InitBatch /\ [][NextBatch]_vars

-----------------------------------------------------------------------------
(* The style questionnaire: a template with the question "Style?" and the
   options Modern and Boho, its assignment, a question added in the project,
   the rename and the new option in the template, and the syncs *)

StyleTemplate ==
    [createdBy |-> 1, title |-> "Style", description |-> "", roomType |-> "",
     questions |-> <<[_id |-> 2, text |-> "Style?", multiple |-> TRUE,
                      options |-> <<[_id |-> 3, text |-> "Modern"],
                                    [_id |-> 4, text |-> "Boho"]>>]>>]

InitStyle ==
    /\ templates = [t \in TemplateIds |-> StyleTemplate]
    /\ projects = [p \in {1} |-> NoProject]
    /\ resp = NoReply
    /\ served = 0
    /\ inflight = NothingInFlight

NextStyle ==
    \/ Serve(MaxStyleRequests) /\ DoAssign({FALSE})
    \/ Serve(MaxStyleRequests) /\ DoEdit("style", {FALSE})
    \/ Serve(MaxStyleRequests) /\ DoUpdateTemplate("style", {FALSE})
    \/ Serve(MaxStyleRequests) /\ DoSync

SpecStyle == InitStyle /\ [][NextStyle]_vars

-----------------------------------------------------------------------------
(* Requests made without the pages: answers with a malformed entry, and
   instance questions that share a sourceQuestionId *)

NextRaw ==
    \/ Serve(MaxRawRequests) /\ DoAssign({FALSE})
    \/ Serve(MaxRawRequests) /\ DoSaveAnswers("raw", {FALSE})
    \/ Serve(MaxRawRequests) /\ DoEdit("raw", {FALSE})
    \/ Serve(MaxRawRequests) /\ DoUpdateTemplate("style", {FALSE})
    \/ Serve(MaxRawRequests) /\ DoSync

SpecRaw == Init /\ [][NextRaw]_vars

-----------------------------------------------------------------------------
(* Two designers: the first with two templates and a project, the second
   with a template and a project that holds its questionnaire; requests on
   ids of the other designer and on ids that are stored nowhere *)

SecondTemplate ==
    [createdBy |-> 1, title |-> "a", description |-> "", roomType |-> "",
     questions |-> <<[_id |-> 5, text |-> "a", multiple |-> FALSE,
                      options |-> <<>>]>>]

OtherTemplate ==
    [createdBy |-> 2, title |-> "a", description |-> "", roomType |-> "",
     questions |-> <<[_id |-> 8, text |-> "a", multiple |-> FALSE,
                      options |-> <<>>]>>]

OwnerTemplates == (1 :> InitTemplate) @@ (4 :> SecondTemplate) @@ (7 :> OtherTemplate)

InitOwners ==
    /\ templates = OwnerTemplates
    /\ projects =
        (1 :> NoProject)
        @@ (2 :> [createdBy |-> 2,
                  designQuestionnaires |-> <<NewInstance(OtherTemplate, 7, 9, 1)>>])
    /\ resp = NoReply
    /\ served = 0
    /\ inflight = NothingInFlight

AllInstanceIds == {inst._id : inst \in AllInstances}

\* a request with the id of a project, a template or an instance that is
\* stored nowhere, with the id of an instance of another project, or a sync
\* of a template of the other designer
DoMissing ==
    \E u \in Users :
        \/ \E p \in ProjectIds \cup {nextId}, t \in DOMAIN templates \cup {nextId} :
                nextId \in {p, t} /\ Assign(u, p, t, FALSE)
        \/ \E t \in DOMAIN templates \cup {nextId}, mode \in {"safe", "force"} :
                /\ IF t = nextId THEN TRUE ELSE templates[t].createdBy # u
                /\ Sync(u, t, mode, Undefined)
        \/ \E p \in ProjectIds \cup {nextId}, id \in AllInstanceIds \cup {nextId} :
                /\ IF p = nextId THEN TRUE ELSE id \notin InstanceIds(p)
                /\ \/ Edit(u, p, id, EditBody({"title"}, "b", "", "", <<>>), FALSE)
                   \/ Remove(u, p, id, FALSE)

NextOwners ==
    \/ Serve(MaxOwnerRequests) /\ DoAssign({FALSE})
    \/ Serve(MaxOwnerRequests) /\ DoSaveAnswers("page", {FALSE})
    \/ Serve(MaxOwnerRequests) /\ DoRemove({FALSE})
    \/ Serve(MaxOwnerRequests) /\ DoEdit("subset", {FALSE})
    \/ Serve(MaxOwnerRequests) /\ DoMissing

SpecOwners == InitOwners /\ [][NextOwners]_vars

-----------------------------------------------------------------------------
(* The same store, with the designer's two templates assigned, synced and
   edited, and answers saved under any template id: that of the instance
   shown, that of another template, or one that is stored nowhere *)

DoSaveAnswersKeyed ==
    \E u \in Users, p \in ProjectIds, key \in DOMAIN templates \cup {nextId} :
        \E i \in 1..Len(Instances(p)) :
            \E answers \in ClientPayloads(Instances(p)[i]) :
                SaveAnswers(u, p, key, answers, FALSE)

NextKeys ==
    \/ Serve(MaxKeyRequests) /\ DoAssign({FALSE})
    \/ Serve(MaxKeyRequests) /\ DoSaveAnswersKeyed
    \/ Serve(MaxKeyRequests) /\ DoRemove({FALSE})
    \/ Serve(MaxKeyRequests) /\ DoEdit("style", {FALSE})
    \/ Serve(MaxKeyRequests) /\ DoUpdateTemplate("style", {FALSE})
    \/ Serve(MaxKeyRequests) /\ DoSync

SpecKeys == InitOwners /\ [][NextKeys]_vars

-----------------------------------------------------------------------------
(* Requests that overlap.  A handler gives way to other requests at each    *)
(* `await`: after its find / findOne, and at each project.save().  It saves *)
(* the copy of the document it read.  ProjectSchema is declared with        *)
(* { timestamps: true } only, so the documents carry Mongoose's version key *)
(* __v: a save that sets an array (markModified("designQuestionnaires"), or *)
(* new questions of an instance) is sent with the condition that __v is the *)
(* one read and increments __v; a save that sets only fields of an array    *)
(* element is sent with the condition and no increment; a save whose        *)
(* condition matches no document throws VersionError.  A copy is `stale`    *)
(* once __v of its document has been incremented since it was read.         *)

\* project.save() that is sent without the condition on __v
SaveThrowsNever(stale) == FALSE

\* project.save() of a modified copy throws VersionError when the copy is stale
SaveThrows(stale) == stale

\* the requests taken so far, finished or in flight
Taken ==
    served + (IF inflight.sync.op = "none" THEN 0 ELSE 1)
           + (IF inflight.request.op = "none" THEN 0 ELSE 1)

\* the copy a request holds of project p, if any, is stale from now on
StaleRequest(p) ==
    IF inflight.request.op # "none" /\ inflight.request.projectId = p
    THEN [inflight.request EXCEPT !.stale = TRUE]
    ELSE inflight.request

\* the copy a sync holds of project p, if any, is stale from now on
StaleSync(p) ==
    IF inflight.sync.op # "none" /\ p \in DOMAIN inflight.sync.docs
    THEN [inflight.sync EXCEPT !.stale = @ \cup {p}]
    ELSE inflight.sync

\* the sync handler up to the end of ProjectModel.find: without the template
\* or without any project it replies at once
SyncRead(u, t, mode) ==
    /\ inflight.sync.op = "none"
    /\ Taken < MaxRaceRequests
    /\ IF ~TemplateFound(t, u) \/ ProjectsUsing(t, u) = <<>>
       THEN /\ Sync(u, t, mode, Undefined)
            /\ served' = served + 1
            /\ inflight' = inflight
       ELSE /\ inflight' = [inflight EXCEPT !.sync =
                    [op |-> "sync", templateId |-> t, template |-> templates[t],
                     mode |-> mode, order |-> ProjectsUsing(t, u),
                     docs |-> [p \in Range(ProjectsUsing(t, u)) |-> projects[p]],
                     k |-> 1, updatedCount |-> 0, skippedCustomized |-> 0,
                     stale |-> {}]]
            /\ UNCHANGED <<templates, projects, resp, served>>

\* one round of the loop over the projects read: the merge into the copy,
\* its save, and after the last project the reply
SyncSave ==
    /\ inflight.sync.op = "sync"
    /\ LET s == inflight.sync
           p == s.order[s.k]
           r == SyncInstances(s.docs[p].designQuestionnaires, s.templateId,
                              s.template, s.mode, nextId, Now)
       IN  IF r.changed /\ SaveThrows(p \in s.stale)
           THEN /\ resp' = SyncReply(500, s.templateId, s.mode, 0, 0)
                /\ served' = served + 1
                /\ inflight' = [inflight EXCEPT !.sync = Idle]
                /\ UNCHANGED <<templates, projects>>
           ELSE
               LET updated == s.updatedCount + (IF r.changed THEN 1 ELSE 0)
                   skipped == s.skippedCustomized + r.skipped
                   request == IF r.changed THEN StaleRequest(p)
                              ELSE inflight.request
               IN  /\ projects' = IF r.changed THEN SetInstances(p, r.insts)
                                  ELSE projects
                   /\ IF s.k = Len(s.order)
                      THEN /\ resp' = SyncReply(200, s.templateId, s.mode,
                                                updated, skipped)
                           /\ served' = served + 1
                           /\ inflight' = [sync |-> Idle, request |-> request]
                      ELSE /\ inflight' =
                                [sync |-> [s EXCEPT !.k = @ + 1,
                                            !.updatedCount = updated,
                                            !.skippedCustomized = skipped],
                                 request |-> request]
                           /\ UNCHANGED <<resp, served>>
                   /\ UNCHANGED templates

\* the answers handler up to the end of ProjectModel.findOne: without the
\* project or without any instance it replies at once
AnswersRead(u, p, templateId, answers) ==
    /\ inflight.request.op = "none"
    /\ Taken < MaxRaceRequests
    /\ IF ~ProjectFound(p, u) \/ Len(Instances(p)) = 0
       THEN /\ SaveAnswers(u, p, templateId, answers, FALSE)
            /\ served' = served + 1
            /\ inflight' = inflight
       ELSE /\ inflight' = [inflight EXCEPT !.request =
                    [op |-> "answers", projectId |-> p, doc |-> projects[p],
                     stale |-> FALSE, templateId |-> templateId,
                     answers |-> answers]]
            /\ UNCHANGED <<templates, projects, resp, served>>

\* the rest of the answers handler: the answers are set in the copy, and
\* the copy is saved with markModified("designQuestionnaires")
AnswersSave ==
    /\ inflight.request.op = "answers"
    /\ LET q == inflight.request
           insts == q.doc.designQuestionnaires
           idx == AnswerTarget(insts, q.templateId)
           stored == StoredAnswers(q.answers)
       IN  IF ~AnswersValid(stored) \/ SaveThrows(q.stale)
           THEN /\ resp' = Reply("answers", 500, q.projectId, q.templateId)
                /\ inflight' = [inflight EXCEPT !.request = Idle]
                /\ UNCHANGED <<templates, projects>>
           ELSE /\ projects' = SetInstances(q.projectId,
                        [insts EXCEPT ![idx].answers = stored])
                /\ resp' = Reply("answers", 200, q.projectId, q.templateId)
                /\ inflight' = [sync |-> StaleSync(q.projectId),
                                request |-> Idle]
                /\ UNCHANGED templates
    /\ served' = served + 1

\* the edit handler up to the end of ProjectModel.findOne: without the
\* project or the instance it replies at once
EditRead(u, p, instanceId, body) ==
    /\ inflight.request.op = "none"
    /\ Taken < MaxRaceRequests
    /\ IF ~ProjectFound(p, u)
       THEN /\ Edit(u, p, instanceId, body, FALSE)
            /\ served' = served + 1
            /\ inflight' = inflight
       ELSE IF Find(Instances(p), "_id", instanceId) = 0
       THEN /\ Edit(u, p, instanceId, body, FALSE)
            /\ served' = served + 1
            /\ inflight' = inflight
       ELSE /\ inflight' = [inflight EXCEPT !.request =
                    [op |-> "edit", projectId |-> p, doc |-> projects[p],
                     stale |-> FALSE, instanceId |-> instanceId,
                     body |-> body]]
            /\ UNCHANGED <<templates, projects, resp, served>>

\* the rest of the edit handler: the fields are set in the copy and the
\* copy is saved.  Only what changed is sent: nothing at all, or
\* isCustomized alone when the questions sent are those read, or else the
\* array of questions as well, which increments __v.
EditSave ==
    /\ inflight.request.op = "edit"
    /\ LET q == inflight.request
           insts == q.doc.designQuestionnaires
           idx == Find(insts, "_id", q.instanceId)
           edited == EditedInstance(insts[idx], q.body, nextId)
       IN  IF edited = insts[idx]
           THEN /\ resp' = Reply("edit", 200, q.projectId, Undefined)
                /\ inflight' = [inflight EXCEPT !.request = Idle]
                /\ UNCHANGED <<templates, projects>>
           ELSE IF SaveThrows(q.stale)
           THEN /\ resp' = Reply("edit", 500, q.projectId, Undefined)
                /\ inflight' = [inflight EXCEPT !.request = Idle]
                /\ UNCHANGED <<templates, projects>>
           ELSE /\ projects' = SetInstances(q.projectId,
                        [insts EXCEPT ![idx] = edited])
                /\ resp' = Reply("edit", 200, q.projectId, Undefined)
                /\ inflight' =
                        [sync |-> IF edited.questions # insts[idx].questions
                                  THEN StaleSync(q.projectId)
                                  ELSE inflight.sync,
                         request |-> Idle]
                /\ UNCHANGED templates
    /\ served' = served + 1

\* saveProjectVersion with the draft as it was loaded, or after
\* addDraftQuestion
OverlapEditBodies(instance) ==
    {EditBody({"questions"}, "", "", "", instance.questions)}
        \cup StyleEditBodies(instance)

\* two projects of the designer, each with an instance of the template
InitOverlap ==
    /\ templates = [t \in TemplateIds |-> InitTemplate]
    /\ projects =
        (1 :> [NoProject EXCEPT !.designQuestionnaires =
                    <<NewInstance(InitTemplate, 1, 4, 1)>>])
        @@ (2 :> [NoProject EXCEPT !.designQuestionnaires =
                    <<NewInstance(InitTemplate, 1, 7, 1)>>])
    /\ resp = NoReply
    /\ served = 0
    /\ inflight = NothingInFlight

DoSyncRead ==
    \E u \in Users, t \in DOMAIN templates, mode \in {"safe", "force"} :
        SyncRead(u, t, mode)

DoAnswersRead ==
    \E u \in Users, p \in ProjectIds :
        \E i \in 1..Len(Instances(p)) :
            \E answers \in ClientPayloads(Instances(p)[i]) :
                AnswersRead(u, p, Instances(p)[i].templateId, answers)

DoEditRead ==
    \E u \in Users, p \in ProjectIds :
        \E i \in 1..Len(Instances(p)) :
            \E body \in OverlapEditBodies(Instances(p)[i]) :
                EditRead(u, p, Instances(p)[i]._id, body)

NextOverlap ==
    \/ DoSyncRead
    \/ SyncSave
    \/ DoAnswersRead
    \/ AnswersSave
    \/ DoEditRead
    \/ EditSave

SpecOverlap == InitOverlap /\ [][NextOverlap]_vars

-----------------------------------------------------------------------------
(* Properties *)

\* the instances of project p after the step
After(p) == projects'[p].designQuestionnaires

\* a request was handled in this step; resp' is its log
Handled == served' # served

SyncStep(mode) == Handled /\ resp'.op = "sync" /\ resp'.mode = mode

\* the instances of template t in the projects of the template's owner
InstancesOf(t) ==
    UNION {{<<p, i>> : i \in {n \in 1..Len(Instances(p)) :
                                Instances(p)[n].templateId = t}} :
            p \in {q \in DOMAIN projects :
                        projects[q].createdBy = templates[t].createdBy}}

InstanceAt(pi) == Instances(pi[1])[pi[2]]

\* the sync of no route removes, adds or reorders instances
SameInstanceIds(p) ==
    /\ Len(After(p)) = Len(Instances(p))
    /\ \A i \in 1..Len(Instances(p)) : After(p)[i]._id = Instances(p)[i]._id

ProjectOnlyQuestions(qs) == SelectSeq(qs, NoSourceQ)

\* the project-only options of a question list, each with its question's id
ProjectOnlyOptions(qs) ==
    UNION {{<<qs[i]._id, qs[i].options[j]>> :
                j \in {n \in 1..Len(qs[i].options) : NoSourceO(qs[i].options[n])}} :
            i \in 1..Len(qs)}

\* C1: a safe sync leaves every customized instance of the synced template
\* exactly as it was (all fields, syncedAt included), and when it returns its
\* counts, skippedCustomized counts each such instance once.
C1_SafeSyncSkipsCustomized ==
    [][SyncStep("safe") /\ resp'.status # 404 =>
        LET t == resp'.templateId
            customized == {pi \in InstancesOf(t) : InstanceAt(pi).isCustomized}
        IN  /\ \A pi \in customized :
                /\ Len(After(pi[1])) = Len(Instances(pi[1]))
                /\ After(pi[1])[pi[2]] = InstanceAt(pi)
            /\ resp'.status = 200 =>
                    resp'.skippedCustomized = Cardinality(customized)]_vars

\* a safe sync has skipped a customized instance that the merge would change
C1_Witness ==
    /\ resp.op = "sync" /\ resp.mode = "safe" /\ resp.status = 200
    /\ resp.skippedCustomized >= 1
    /\ \E pi \in InstancesOf(resp.templateId) :
        /\ InstanceAt(pi).isCustomized
        /\ mergeTemplateIntoInstanceKeepProjectOnly(InstanceAt(pi).questions,
                templates[resp.templateId].questions) # InstanceAt(pi).questions

\* C2: a template edit or a sync (safe or force) keeps every instance's
\* questions without sourceQuestionId: the same questions with the same local
\* id, text, multiple flag and options, in the same order, none merged away.
C2_ProjectOnlyQuestionsKept ==
    [][Handled /\ resp'.op \in {"sync", "template"} =>
        \A p \in DOMAIN projects :
            /\ SameInstanceIds(p)
            /\ \A i \in 1..Len(Instances(p)) :
                ProjectOnlyQuestions(After(p)[i].questions)
                    = ProjectOnlyQuestions(Instances(p)[i].questions)]_vars

\* a force sync has merged an instance that holds a project-only question
C2_Witness ==
    /\ resp.op = "sync" /\ resp.mode = "force" /\ resp.status = 200
    /\ resp.updatedProjects >= 1
    /\ \E pi \in InstancesOf(resp.templateId) :
        /\ ProjectOnlyQuestions(InstanceAt(pi).questions) # <<>>
        /\ Len(InstanceAt(pi).questions) >= 2

\* C3: a template edit or a sync keeps every option without sourceOptionId
\* attached to its question: afterwards the instance still has a question
\* with that local id that holds the option.
C3_ProjectOnlyOptionsKept ==
    [][Handled /\ resp'.op \in {"sync", "template"} =>
        \A p \in DOMAIN projects :
            /\ SameInstanceIds(p)
            /\ \A i \in 1..Len(Instances(p)) :
                ProjectOnlyOptions(Instances(p)[i].questions)
                    \subseteq ProjectOnlyOptions(After(p)[i].questions)]_vars

\* C4: after a force sync that returned its counts, every instance of the
\* template in the owner's projects is not customized, carries the template's
\* title, description and roomType, and has for each template question
\* exactly one question with that sourceQuestionId, with the template's text
\* and multiple flag.
C4_ForceSyncResets ==
    (resp.op = "sync" /\ resp.mode = "force" /\ resp.status = 200) =>
        LET template == templates[resp.templateId]
        IN  \A pi \in InstancesOf(resp.templateId) :
                LET inst == InstanceAt(pi)
                IN  /\ ~inst.isCustomized
                    /\ inst.title = template.title
                    /\ inst.description = template.description
                    /\ inst.roomType = template.roomType
                    /\ \A k \in 1..Len(template.questions) :
                        LET tq == template.questions[k]
                            from == {n \in 1..Len(inst.questions) :
                                inst.questions[n].sourceQuestionId = tq._id}
                        IN  /\ Cardinality(from) = 1
                            /\ \A n \in from :
                                /\ inst.questions[n].text = tq.text
                                /\ inst.questions[n].multiple = tq.multiple

\* a force sync has merged an instance that a project edit had changed: it
\* holds a project-only option on a template question
C4_Witness ==
    /\ resp.op = "sync" /\ resp.mode = "force" /\ resp.status = 200
    /\ resp.updatedProjects >= 1
    /\ \E pi \in InstancesOf(resp.templateId) :
        \E n \in 1..Len(InstanceAt(pi).questions) :
            LET q == InstanceAt(pi).questions[n]
            IN  HasSourceQ(q) /\ \E j \in 1..Len(q.options) : NoSourceO(q.options[j])

\* C5: on an instance that exists before and after a request, isCustomized
\* turns true only in a project edit and turns false only in a force sync;
\* saving answers, a safe sync and an assign leave it as it was.
C5_CustomizedTransitions ==
    [][Handled =>
        \A p \in DOMAIN projects :
            \A i \in 1..Len(Instances(p)) : \A j \in 1..Len(After(p)) :
                Instances(p)[i]._id = After(p)[j]._id =>
                    LET old == Instances(p)[i].isCustomized
                        new == After(p)[j].isCustomized
                    IN  /\ (~old /\ new) => resp'.op = "edit"
                        /\ (old /\ ~new) =>
                                (resp'.op = "sync" /\ resp'.mode = "force")
                        /\ (\/ resp'.op \in {"answers", "assign"}
                            \/ (resp'.op = "sync" /\ resp'.mode = "safe"))
                                => new = old]_vars

\* a template was assigned again to a project whose instance of it is customized
C5_Witness ==
    /\ resp.op = "assign" /\ resp.status = 200
    /\ \E i \in 1..Len(Instances(resp.projectId)) :
        /\ Instances(resp.projectId)[i].templateId = resp.templateId
        /\ Instances(resp.projectId)[i].isCustomized

\* C7: a sync (safe or force) and an assign of a template leave the answers
\* list of every instance that exists before and after it identical, and
\* neither removes an instance.
C7_MergeKeepsAnswers ==
    [][Handled /\ resp'.op \in {"sync", "assign"}
            /\ resp'.templateId # Undefined =>
        \A p \in DOMAIN projects :
            \A i \in 1..Len(Instances(p)) :
                /\ i <= Len(After(p))
                /\ After(p)[i]._id = Instances(p)[i]._id
                /\ After(p)[i].answers = Instances(p)[i].answers]_vars

\* the keys the page uses for the questions of an instance
QuestionKeys(inst) ==
    {getQuestionKey(inst.questions[n]) : n \in 1..Len(inst.questions)}

\* a sync has merged an instance that holds an answer to a question that the
\* merge removed
C7_Witness ==
    /\ resp.op = "sync" /\ resp.status = 200 /\ resp.updatedProjects >= 1
    /\ \E pi \in InstancesOf(resp.templateId) :
        /\ ~InstanceAt(pi).isCustomized
        /\ \E a \in Range(InstanceAt(pi).answers) :
                a.questionId \notin QuestionKeys(InstanceAt(pi))

\* loading files the stored answer a under the key of the question of inst
\* that is derived from template question tq
AnswerResolves(inst, a, tq) ==
    \E n \in 1..Len(inst.questions) :
        /\ inst.questions[n].sourceQuestionId = tq._id
        /\ FinalQKey(inst, a) = getQuestionKey(inst.questions[n])

\* a sync or an assign of template resp'.templateId has returned normally
MergeStep ==
    /\ Handled /\ resp'.status = 200
    /\ resp'.op \in {"sync", "assign"} /\ resp'.templateId # Undefined

\* after the step, every answer of the instance at pi that is keyed by the id
\* of a question of the template resolves to the question derived from it
AnswersResolveAfter(pi) ==
    /\ pi[2] <= Len(After(pi[1]))
    /\ \A a \in Range(InstanceAt(pi).answers) :
        \A tq \in Range(templates[resp'.templateId].questions) :
            a.questionId = tq._id =>
                AnswerResolves(After(pi[1])[pi[2]], a, tq)

\* the instances a merge step is about: of the template, and for an assign
\* in the project of the request
MergeTargets ==
    {pi \in InstancesOf(resp'.templateId) :
        resp'.op = "assign" => pi[1] = resp'.projectId}

\* C8 as stated: after any sync or assign of a template, an answer keyed by
\* the id of a question of the template resolves to the instance question
\* derived from that template question.
C8_AnswerResolvesAfterAnySync ==
    [][MergeStep => \A pi \in MergeTargets : AnswersResolveAfter(pi)]_vars

\* C8 amended: the same, after an assign, a force sync, or a safe sync of an
\* instance that is not customized.
C8_AnswerResolvesAfterMerge ==
    [][MergeStep =>
        \A pi \in MergeTargets :
            (\/ resp'.op = "assign"
             \/ resp'.mode = "force"
             \/ ~InstanceAt(pi).isCustomized) => AnswersResolveAfter(pi)]_vars

\* a force sync has merged an instance that holds an answer keyed
\* by a template question, and the answer resolves
C8_Witness ==
    /\ resp.op = "sync" /\ resp.mode = "force" /\ resp.status = 200
    /\ resp.updatedProjects >= 1
    /\ \E pi \in InstancesOf(resp.templateId) :
        \E a \in Range(InstanceAt(pi).answers) :
            \E tq \in Range(templates[resp.templateId].questions) :
                /\ a.questionId = tq._id
                /\ AnswerResolves(InstanceAt(pi), a, tq)

\* an instance without its syncedAt stamp
Content(inst) == [inst EXCEPT !.syncedAt = 0]

\* C9: a safe sync that directly follows a safe sync of the same template
\* which returned its counts leaves every instance as the first one left it
\* (all fields but syncedAt), so no question or option is added.
C9_SafeSyncIdempotent ==
    [][SyncStep("safe") /\ resp.op = "sync" /\ resp.mode = "safe"
            /\ resp.status = 200 /\ resp.templateId = resp'.templateId =>
        \A p \in DOMAIN projects :
            /\ Len(After(p)) = Len(Instances(p))
            /\ \A i \in 1..Len(Instances(p)) :
                Content(After(p)[i]) = Content(Instances(p)[i])]_vars

\* a second safe sync in a row has gone over an instance that is not customized
C9_Witness ==
    /\ resp.op = "sync" /\ resp.mode = "safe" /\ resp.status = 200
    /\ resp.again /\ resp.updatedProjects >= 1
    /\ \E pi \in InstancesOf(resp.templateId) :
        ~InstanceAt(pi).isCustomized /\ InstanceAt(pi).questions # <<>>

\* the projects of the owner in which a sync of template t in this mode has
\* an instance to merge
DueProjects(t, mode) ==
    {pi[1] : pi \in {x \in InstancesOf(t) : ~SkipInstance(InstanceAt(x), mode)}}

\* the step has merged and stored the instances of t in project p
MergedAndStored(p, t, mode) ==
    /\ Len(After(p)) = Len(Instances(p))
    /\ \A i \in 1..Len(Instances(p)) :
        (Instances(p)[i].templateId = t /\ ~SkipInstance(Instances(p)[i], mode))
            => After(p)[i].syncedAt = Now

\* C6: a sync in which the save of one project fails still merges and stores
\* every other project that uses the template, returns its counts, and counts
\* in updatedProjects exactly the projects it stored.
C6_SyncFailureIsolated ==
    [][Handled /\ resp'.op = "sync" /\ resp'.status # 404 =>
        LET t == resp'.templateId
            due == DueProjects(t, resp'.mode)
            stored == {p \in due : MergedAndStored(p, t, resp'.mode)}
        IN  /\ resp'.status = 200
            /\ Cardinality(due \ stored) <= 1
            /\ resp'.updatedProjects = Cardinality(stored)]_vars

OptionTexts(q) == [j \in 1..Len(q.options) |-> q.options[j].text]

\* the template after the rename of its question and the new option
StyleTemplateEdited ==
    /\ Len(templates[1].questions) = 1
    /\ templates[1].questions[1]._id = 2
    /\ templates[1].questions[1].text = "Preferred Style?"
    /\ OptionTexts(templates[1].questions[1]) = <<"Modern", "Boho", "Industrial">>

\* the instance of the project
StyleInstance == Instances(1)[1]

\* the state after the assignment, the project's own question (whose edit
\* marked the instance customized) and the template edit: the instance still
\* has the question as assigned, and the project's question after it
StyleEdited ==
    /\ StyleTemplateEdited
    /\ Len(Instances(1)) = 1
    /\ StyleInstance.templateId = 1
    /\ StyleInstance.isCustomized
    /\ Len(StyleInstance.questions) = 2
    /\ StyleInstance.questions[1].sourceQuestionId = 2
    /\ StyleInstance.questions[1].text = "Style?"
    /\ OptionTexts(StyleInstance.questions[1]) = <<"Modern", "Boho">>
    /\ NoSourceQ(StyleInstance.questions[2])
    /\ StyleInstance.questions[2].text = "Budget note?"

\* inst has the template's question as edited, and then the question b
StyleMerged(inst, b) ==
    /\ Len(inst.questions) = 2
    /\ inst.questions[1].sourceQuestionId = 2
    /\ inst.questions[1].text = "Preferred Style?"
    /\ OptionTexts(inst.questions[1]) = <<"Modern", "Boho", "Industrial">>
    /\ inst.questions[2] = b

SafeSyncReturned == resp.op = "sync" /\ resp.mode = "safe" /\ resp.status = 200

\* the force sync that follows the safe one merges the template's question,
\* keeps the project's question and clears the customization flag
StyleForceSync ==
    (StyleEdited /\ SafeSyncReturned /\ SyncStep("force") /\ resp'.status = 200)
        => /\ Len(After(1)) = 1
           /\ StyleMerged(After(1)[1], StyleInstance.questions[2])
           /\ ~After(1)[1].isCustomized

\* C10 as stated: after the assignment, the project's question and the
\* template edit, the safe sync gives the instance the renamed question with
\* the options Modern, Boho and Industrial and keeps the project's question;
\* the force sync after it gives the same and clears isCustomized.
C10_StyleSafeSyncMerges ==
    [][/\ (StyleEdited /\ SyncStep("safe") /\ resp'.status = 200)
            => /\ Len(After(1)) = 1
               /\ StyleMerged(After(1)[1], StyleInstance.questions[2])
       /\ StyleForceSync]_vars

\* C10 amended: the safe sync skips the instance, which the project's edit
\* has marked customized: it leaves it as it was and reports one skipped
\* instance and no updated project; the force sync after it gives the
\* renamed question with the options Modern, Boho and Industrial, keeps the
\* project's question and clears isCustomized.
C10_StyleForceSyncMerges ==
    [][/\ (StyleEdited /\ SyncStep("safe") /\ resp'.status = 200)
            => /\ After(1) = Instances(1)
               /\ resp'.skippedCustomized = 1
               /\ resp'.updatedProjects = 0
       /\ StyleForceSync]_vars

\* the safe sync has skipped the instance of the scenario, which still has the
\* question as assigned; the force sync comes next
C10_Witness ==
    /\ StyleEdited
    /\ SafeSyncReturned
    /\ resp.templateId = 1
    /\ resp.skippedCustomized = 1
    /\ resp.updatedProjects = 0

\* q has one option per option of template question tq, in the template's
\* order and with its id as sourceOptionId and its text, and then the options po
OptionsShaped(q, tq, po) ==
    /\ Len(q.options) = Len(tq.options) + Len(po)
    /\ \A j \in 1..Len(tq.options) :
        /\ q.options[j].sourceOptionId = tq.options[j]._id
        /\ q.options[j].text = tq.options[j].text
    /\ SubSeq(q.options, Len(tq.options) + 1, Len(q.options)) = po

\* the project-only options of the question of old that has this local id;
\* none when the question is a new one
KeptOptions(old, id) ==
    LET i == Find(old, "_id", id)
    IN  IF i = 0 THEN <<>> ELSE SelectSeq(old[i].options, NoSourceO)

\* new is old merged with the template questions tqs: first one question per
\* template question, then the project-only questions of old
MergeShaped(new, old, tqs) ==
    /\ Len(new) = Len(tqs) + Len(ProjectOnlyQuestions(old))
    /\ \A k \in 1..Len(tqs) :
        /\ new[k].sourceQuestionId = tqs[k]._id
        /\ new[k].text = tqs[k].text
        /\ new[k].multiple = tqs[k].multiple
        /\ OptionsShaped(new[k], tqs[k], KeptOptions(old, new[k]._id))
    /\ SubSeq(new, Len(tqs) + 1, Len(new)) = ProjectOnlyQuestions(old)

\* C11: the questions a sync stores in an instance it merges are one per
\* template question, in template order, with the template question's id as
\* sourceQuestionId and its text and multiple flag, followed by the
\* instance's former questions without sourceQuestionId in their order; the
\* options of each merged question are one per template option in template
\* order, followed by that question's former project-only options in order.
C11_SyncMergeShape ==
    [][Handled /\ resp'.op = "sync" /\ resp'.status = 200 =>
        \A pi \in InstancesOf(resp'.templateId) :
            ~SkipInstance(InstanceAt(pi), resp'.mode) =>
                /\ pi[2] <= Len(After(pi[1]))
                /\ MergeShaped(After(pi[1])[pi[2]].questions,
                               InstanceAt(pi).questions,
                               templates[resp'.templateId].questions)]_vars

\* a sync has merged an instance that has a project-only question after its
\* template questions, and a template question with a template option
\* followed by a project-only option
C11_Witness ==
    /\ resp.op = "sync" /\ resp.status = 200 /\ resp.updatedProjects >= 1
    /\ \E pi \in InstancesOf(resp.templateId) :
        LET qs == InstanceAt(pi).questions
        IN  /\ Len(qs) >= 2
            /\ HasSourceQ(qs[1]) /\ NoSourceQ(qs[Len(qs)])
            /\ Len(qs[1].options) >= 2
            /\ HasSourceO(qs[1].options[1])
            /\ NoSourceO(qs[1].options[Len(qs[1].options)])

\* an assign of a template has returned normally
AssignStep ==
    /\ Handled /\ resp'.op = "assign" /\ resp'.status = 200
    /\ resp'.templateId # Undefined

\* the positions of the instances of template t in project p
InstancesIn(p, t) ==
    {i \in 1..Len(Instances(p)) : Instances(p)[i].templateId = t}

TemplateQuestionIds(t) ==
    {templates[t].questions[k]._id : k \in 1..Len(templates[t].questions)}

\* C12: an assign of a template to a project that has an instance of it
\* leaves in that instance exactly one question per template question, in
\* template order, with the template question's id as sourceQuestionId and
\* its text and multiple flag, each with exactly one option per template
\* option; every former question whose key (sourceQuestionId, else local id)
\* is no template question's id is gone, and so is every project-only option.
C12_ReassignFollowsTemplate ==
    [][AssignStep =>
        LET p == resp'.projectId
            t == resp'.templateId
            tqs == templates[t].questions
        IN  \A i \in InstancesIn(p, t) :
                LET old == Instances(p)[i].questions
                    new == After(p)[i].questions
                IN  /\ Len(new) = Len(tqs)
                    /\ \A k \in 1..Len(tqs) :
                        /\ new[k].sourceQuestionId = tqs[k]._id
                        /\ new[k].text = tqs[k].text
                        /\ new[k].multiple = tqs[k].multiple
                        /\ OptionsShaped(new[k], tqs[k], <<>>)
                    /\ \A n \in 1..Len(old) :
                        getQuestionKey(old[n]) \notin TemplateQuestionIds(t)
                            => Find(new, "_id", old[n]._id) = 0]_vars

\* a template was assigned again to a project whose instance of it had been
\* edited in the project: the instance has the template's questions only
C12_Witness ==
    /\ resp.op = "assign" /\ resp.status = 200 /\ resp.templateId # Undefined
    /\ \E i \in InstancesIn(resp.projectId, resp.templateId) :
        LET inst == Instances(resp.projectId)[i]
        IN  /\ inst.isCustomized
            /\ inst.syncedAt >= 2
            /\ Len(inst.questions) = Len(templates[resp.templateId].questions)
            /\ inst.questions # <<>>

\* the projects in which the step changed an instance of template t
ChangedProjects(t) ==
    {p \in DOMAIN projects :
        \E i \in InstancesIn(p, t) :
            i > Len(After(p)) \/ After(p)[i] # Instances(p)[i]}

\* C14: when a sync returns its counts, updatedProjects is the number of
\* projects in which it changed at least one instance of the template, and
\* skippedCustomized is the number of customized instances of the template
\* in safe mode and 0 in force mode.
C14_SyncCounts ==
    [][Handled /\ resp'.op = "sync" /\ resp'.status = 200 =>
        LET t == resp'.templateId
            customized == {pi \in InstancesOf(t) : InstanceAt(pi).isCustomized}
        IN  /\ resp'.updatedProjects = Cardinality(ChangedProjects(t))
            /\ resp'.skippedCustomized =
                    IF resp'.mode = "safe" THEN Cardinality(customized) ELSE 0
            /\ \A pi \in InstancesOf(t) :
                    (resp'.mode = "safe" /\ InstanceAt(pi).isCustomized)
                        => After(pi[1]) = Instances(pi[1])]_vars

\* a safe sync over two projects has updated one and skipped the customized
\* instance of the other
C14_Witness ==
    /\ resp.op = "sync" /\ resp.mode = "safe" /\ resp.status = 200
    /\ resp.updatedProjects = 1
    /\ resp.skippedCustomized = 1
    /\ Cardinality({pi[1] : pi \in InstancesOf(resp.templateId)}) = 2

\* answers were saved by the last request
AnswersSaved == resp.op = "answers" /\ resp.status = 200

\* the instance the last save of answers wrote to
SavedInstance ==
    Instances(resp.projectId)[AnswerTarget(Instances(resp.projectId),
                                           resp.templateId)]

\* the keys of the options of the questions of inst that have question key k
OptionKeysOf(inst, k) ==
    UNION {{getOptionKey(inst.questions[n].options[j]) :
                j \in 1..Len(inst.questions[n].options)} :
            n \in {m \in 1..Len(inst.questions) :
                        getQuestionKey(inst.questions[m]) = k}}

C16_NoEmptyAnswerStored ==
    AnswersSaved =>
        \A a \in Range(SavedInstance.answers) :
            a.freeText # "" \/ a.selectedOptions # <<>>

\* answers were saved for an instance with more questions than answers: the
\* page sends an entry for every question, and the empty ones were left out
C16_Witness ==
    /\ AnswersSaved
    /\ Len(SavedInstance.questions) >= 2
    /\ Len(SavedInstance.answers) >= 1
    /\ Len(SavedInstance.answers) < Len(SavedInstance.questions)

\* an entry with a question key and a list of selections
WellFormed(a) == a.present /\ a.questionId # Undefined /\ a.listed

\* the well-formed entries of a payload that have free text or a selection,
\* as answers
WellFormedAnswers(answers) ==
    LET good == SelectSeq(answers,
                    LAMBDA a : WellFormed(a)
                        /\ (a.freeText # "" \/ a.selectedOptions # <<>>))
    IN  [i \in 1..Len(good) |->
            [questionId |-> good[i].questionId,
             selectedOptions |-> good[i].selectedOptions,
             freeText |-> good[i].freeText]]

\* C17: a save of answers whose payload has a malformed entry (null, without
\* question key, or with selectedOptions that is no list) among well-formed
\* ones succeeds and stores exactly the well-formed entries that are not
\* empty.
C17_MalformedEntriesDropped ==
    [][\A p \in DOMAIN projects :
        \A i \in 1..Len(Instances(p)) :
            \A answers \in RawPayloads(Instances(p)[i]) :
                (Handled /\ SaveAnswers(projects[p].createdBy, p,
                                        Instances(p)[i].templateId, answers, FALSE))
                    => /\ resp'.status = 200
                       /\ After(p)[i].answers = WellFormedAnswers(answers)]_vars

\* the positions of the questions of qs with this sourceQuestionId
SourcedFrom(qs, id) == {n \in 1..Len(qs) : qs[n].sourceQuestionId = id}

\* C18: when an instance has several questions with the sourceQuestionId of
\* a template question, a sync that merges the instance merges the template
\* question into the first of them (the question at the template question's
\* place keeps that one's local id) and keeps each of the others unchanged.
C18_FirstDuplicateWins ==
    [][Handled /\ resp'.op = "sync" /\ resp'.status = 200 =>
        \A pi \in InstancesOf(resp'.templateId) :
            ~SkipInstance(InstanceAt(pi), resp'.mode) =>
                LET old == InstanceAt(pi).questions
                    new == After(pi[1])[pi[2]].questions
                    tqs == templates[resp'.templateId].questions
                IN  \A k \in 1..Len(tqs) :
                        LET dup == SourcedFrom(old, tqs[k]._id)
                            first == CHOOSE n \in dup : \A m \in dup : n <= m
                        IN  Cardinality(dup) >= 2 =>
                                /\ k <= Len(new)
                                /\ new[k]._id = old[first]._id
                                /\ \A n \in dup \ {first} :
                                        \E m \in 1..Len(new) : new[m] = old[n]]_vars

\* C13: an assign of a template to a project that has no instance of it adds
\* one instance at the end and leaves the others as they were; the new
\* instance has one question per template question, in template order, with
\* the template question's id as sourceQuestionId, each with one option per
\* template option with the template option's id as sourceOptionId; it has no
\* answers and is not customized.
C13_AssignMaterializes ==
    [][AssignStep /\ InstancesIn(resp'.projectId, resp'.templateId) = {} =>
        LET p == resp'.projectId
            t == resp'.templateId
            tqs == templates[t].questions
            n == Len(Instances(p))
        IN  /\ Len(After(p)) = n + 1
            /\ SubSeq(After(p), 1, n) = Instances(p)
            /\ LET new == After(p)[n + 1]
               IN  /\ new.templateId = t
                   /\ new.answers = <<>>
                   /\ new.isCustomized = FALSE
                   /\ new.syncedAt = Now
                   /\ Len(new.questions) = Len(tqs)
                   /\ \A k \in 1..Len(tqs) :
                        /\ new.questions[k].sourceQuestionId = tqs[k]._id
                        /\ Len(new.questions[k].options) = Len(tqs[k].options)
                        /\ \A j \in 1..Len(tqs[k].options) :
                            new.questions[k].options[j].sourceOptionId
                                = tqs[k].options[j]._id]_vars

\* a second template was assigned to a project whose first instance had been
\* edited: the new instance is the last one, stamped right after the first
C13_Witness ==
    /\ resp.op = "assign" /\ resp.status = 200 /\ ~resp.again
    /\ resp.projectId \in DOMAIN projects
    /\ LET insts == Instances(resp.projectId)
       IN  /\ Len(insts) = 2
           /\ insts[1].isCustomized
           /\ insts[2].templateId = resp.templateId
           /\ insts[2].syncedAt = insts[1].syncedAt + 1
           /\ insts[2].answers = <<>> /\ ~insts[2].isCustomized
           /\ insts[2].questions # <<>>

\* C19: a successful edit of an instance with a body that carries any
\* subset of title, description, roomType and questions leaves the instance
\* customized, with every field the body does not carry as it was, its
\* answers, id, template and stamp included; the templates, the other
\* instances of the project and the other projects stay as they were.
C19_EditIsLocal ==
    [][Handled /\ resp'.op = "edit" /\ resp'.status = 200 =>
        \A p \in {resp'.projectId} :
        \A i \in 1..Len(Instances(p)) :
            \A body \in SubsetEditBodies(Instances(p)[i]) :
                Edit(projects[p].createdBy, p, Instances(p)[i]._id, body, FALSE)
                    => LET old == Instances(p)[i]
                           new == After(p)[i]
                       IN  /\ new.isCustomized
                           /\ \A f \in {"title", "description", "roomType"} :
                                new[f] = IF f \in body.has THEN body[f] ELSE old[f]
                           /\ "questions" \notin body.has
                                => new.questions = old.questions
                           /\ "questions" \in body.has
                                => /\ Len(new.questions) = Len(body.questions)
                                   /\ \A k \in 1..Len(body.questions) :
                                        new.questions[k].text
                                            = body.questions[k].text
                           /\ new.answers = old.answers
                           /\ new._id = old._id
                           /\ new.templateId = old.templateId
                           /\ new.syncedAt = old.syncedAt
                           /\ templates' = templates
                           /\ Len(After(p)) = Len(Instances(p))
                           /\ \A j \in 1..Len(Instances(p)) :
                                j # i => After(p)[j] = Instances(p)[j]
                           /\ \A q \in DOMAIN projects :
                                q # p => projects'[q] = projects[q]]_vars

\* an instance with answers was edited with a description only, in a project
\* with another instance, which is not customized
C19_Witness ==
    /\ resp.op = "edit" /\ resp.status = 200
    /\ LET insts == Instances(resp.projectId)
       IN  /\ Len(insts) = 2
           /\ \E i \in 1..2 :
                /\ insts[i].isCustomized
                /\ insts[i].description = "b" /\ insts[i].roomType = ""
                /\ insts[i].answers # <<>>
                /\ ~insts[3 - i].isCustomized

\* a project that is absent or of another designer; the same for a template
NoProjectOf(p, u) == p \notin DOMAIN projects \/ projects[p].createdBy # u
NoTemplateOf(t, u) == t \notin DOMAIN templates \/ templates[t].createdBy # u

\* no instance of the project has this id
NoInstanceOf(p, id) == \A i \in 1..Len(Instances(p)) : Instances(p)[i]._id # id

\* no instance of the project has this id as the id of its template
NoInstanceFrom(p, id) ==
    \A i \in 1..Len(Instances(p)) : Instances(p)[i].templateId # id

NotFoundUnchanged == resp'.status = 404 /\ UNCHANGED <<templates, projects>>

\* the ids a request may carry: stored ones, and one that is stored nowhere
SomeProjects == DOMAIN projects \cup {nextId}
SomeTemplates == DOMAIN templates \cup {nextId}
SomeInstances == AllInstanceIds \cup DOMAIN templates \cup {nextId}

\* what holds of assign, sync and edit: NotFound and nothing changed when the
\* project, the template or the instance named is absent or not the caller's
NotFoundOfAssignSyncEdit(u) ==
    /\ resp'.op = "assign" =>
        \A p \in SomeProjects, t \in SomeTemplates :
            (/\ NoProjectOf(p, u) \/ NoTemplateOf(t, u)
             /\ Assign(u, p, t, FALSE)) => NotFoundUnchanged
    /\ resp'.op = "sync" =>
        \A t \in SomeTemplates, mode \in {"safe", "force"} :
            (/\ NoTemplateOf(t, u)
             /\ Sync(u, t, mode, Undefined)) => NotFoundUnchanged
    /\ resp'.op = "edit" =>
        \A p \in SomeProjects, id \in SomeInstances :
            (/\ NoProjectOf(p, u) \/ NoInstanceOf(p, id)
             /\ Edit(u, p, id, EditBody({"title"}, "b", "", "", <<>>), FALSE))
                => NotFoundUnchanged

\* C20 as stated: a sync or an assign that names a template that is absent
\* or not the caller's, and an assign, an edit or a removal that names a
\* project or an instance that is absent or not the caller's, returns
\* NotFound and changes no project and no template.
C20_NotFoundChangesNothing ==
    [][Handled =>
        \A u \in Users :
            /\ NotFoundOfAssignSyncEdit(u)
            /\ resp'.op = "remove" =>
                \A p \in SomeProjects, id \in SomeInstances :
                    (/\ NoProjectOf(p, u) \/ NoInstanceOf(p, id)
                     /\ Remove(u, p, id, FALSE)) => NotFoundUnchanged]_vars

\* C20, amended: the same, where a removal names an absent instance only
\* when its id is neither the id of an instance of the project nor the id of
\* the template of one.
C20_NotFoundUnlessTemplateId ==
    [][Handled =>
        \A u \in Users :
            /\ NotFoundOfAssignSyncEdit(u)
            /\ resp'.op = "remove" =>
                \A p \in SomeProjects, id \in SomeInstances :
                    (/\ NoProjectOf(p, u)
                            \/ (NoInstanceOf(p, id) /\ NoInstanceFrom(p, id))
                     /\ Remove(u, p, id, FALSE)) => NotFoundUnchanged]_vars

\* a removal in the caller's project, which holds a questionnaire, was
\* answered with NotFound: its id was no instance's and no template's of one
C20_Witness ==
    /\ resp.op = "remove" /\ resp.status = 404
    /\ resp.projectId \in DOMAIN projects
    /\ projects[resp.projectId].createdBy \in Users
    /\ Instances(resp.projectId) # <<>>

\* C21: a save of answers under a template id that no instance of the
\* project has is answered with NotFound, and the answers of every instance
\* of the project stay as they were.
C21_UnknownAnswerKeyNotFound ==
    [][Handled /\ resp'.op = "answers" =>
        \A u \in Users, p \in {resp'.projectId}, key \in {resp'.templateId} :
            (/\ ~NoProjectOf(p, u) /\ NoInstanceFrom(p, key)
             /\ \E i \in 1..Len(Instances(p)) :
                    \E answers \in ClientPayloads(Instances(p)[i]) :
                        SaveAnswers(u, p, key, answers, FALSE))
                => /\ resp'.status = 404
                   /\ \A i \in 1..Len(Instances(p)) :
                        After(p)[i].answers = Instances(p)[i].answers]_vars

\* instance new is instance old as merged with its template at time now
MergedAt(new, old, now) ==
    /\ new.syncedAt = now
    /\ new.title = templates[old.templateId].title
    /\ Len(new.questions) >= Len(templates[old.templateId].questions)
    /\ new._id = old._id /\ new.answers = old.answers

OptionIdsOf(qs, id) ==
    UNION {{qs[k].options[j]._id : j \in 1..Len(qs[k].options)} :
            k \in {n \in 1..Len(qs) : qs[n]._id = id}}

\* the sourceOptionIds held in qs by the questions with this sourceQuestionId
SourcedOptionIds(qs, id) ==
    UNION {{qs[k].options[j].sourceOptionId : j \in 1..Len(qs[k].options)} :
            k \in SourcedFrom(qs, id)}

\* the instances stored before the step that have this id
Before(id) == {inst \in AllInstances : inst._id = id}

\* C23: whatever the request, a sourceQuestionId held by an instance after
\* it is the id of a question of the instance's template or was held by the
\* instance before, and a sourceOptionId on such a question is the id of an
\* option of that template question or was held there before: the source ids
\* of an instance only ever come from its template.
C23_SourceIdsFromTemplate ==
    [][Handled =>
        \A p \in DOMAIN projects :
            \A i \in 1..Len(After(p)) :
                LET inst == After(p)[i]
                    tqs == templates[inst.templateId].questions
                    tqs2 == templates'[inst.templateId].questions
                IN  \A k \in 1..Len(inst.questions) :
                        LET q == inst.questions[k]
                            s == q.sourceQuestionId
                        IN  s # Undefined =>
                            /\ \/ \E n \in 1..Len(tqs) : tqs[n]._id = s
                               \/ \E n \in 1..Len(tqs2) : tqs2[n]._id = s
                               \/ \E old \in Before(inst._id) :
                                    SourcedFrom(old.questions, s) # {}
                            /\ \A j \in 1..Len(q.options) :
                                LET so == q.options[j].sourceOptionId
                                IN  so # Undefined =>
                                    \/ so \in OptionIdsOf(tqs, s)
                                    \/ so \in OptionIdsOf(tqs2, s)
                                    \/ \E old \in Before(inst._id) :
                                        so \in SourcedOptionIds(old.questions, s)]_vars

\* an instance holds a question and an option from a template question that
\* the template no longer has, next to a question of the project's own
C23_Witness ==
    \E inst \in AllInstances :
        \E k, n \in 1..Len(inst.questions) :
            LET q == inst.questions[k]
            IN  /\ q.sourceQuestionId # Undefined
                /\ \A m \in 1..Len(templates[inst.templateId].questions) :
                    templates[inst.templateId].questions[m]._id # q.sourceQuestionId
                /\ \E j \in 1..Len(q.options) :
                    q.options[j].sourceOptionId # Undefined
                /\ inst.questions[n].sourceQuestionId = Undefined

\* the least of a set of positions
First(S) == CHOOSE n \in S : \A m \in S : n <= m

\* C24: a removal that succeeds leaves the project's instances as they were
\* but for one: the instance with the given id as local id or, when there
\* is none, the first one with it as templateId; the others keep their
\* order and content, and no instance with the removed one's id, and so
\* none of its answers, is left.
C24_RemoveDeletesOne ==
    [][Handled /\ resp'.op = "remove" /\ resp'.status = 200 =>
        \A u \in Users, p \in {resp'.projectId}, id \in SomeInstances :
            Remove(u, p, id, FALSE) =>
                LET old == Instances(p)
                    byId == {n \in 1..Len(old) : old[n]._id = id}
                    byTemplate == {n \in 1..Len(old) : old[n].templateId = id}
                    k == IF byId # {} THEN First(byId) ELSE First(byTemplate)
                IN  /\ byId \cup byTemplate # {}
                    /\ Len(After(p)) = Len(old) - 1
                    /\ \A j \in 1..Len(After(p)) :
                        After(p)[j] = IF j < k THEN old[j] ELSE old[j + 1]
                    /\ \A j \in 1..Len(After(p)) : After(p)[j]._id # old[k]._id
                    /\ \A q \in DOMAIN projects :
                        q # p => projects'[q] = projects[q]]_vars

\* the first of two instances of a project was removed: the second one,
\* assigned later, is the one left
C24_Witness ==
    /\ resp.op = "remove" /\ resp.status = 200
    /\ Len(Instances(resp.projectId)) = 1
    /\ Instances(resp.projectId)[1].syncedAt >= 2

\* C27: a sync of template T changes no template, no instance of another
\* template, also in a project that it stores, and no project that has no
\* instance of T or is not the caller's.
C27_SyncFrame ==
    [][Handled /\ resp'.op = "sync" =>
        /\ templates' = templates
        /\ \A p \in DOMAIN projects :
            /\ Len(After(p)) = Len(Instances(p))
            /\ \A i \in 1..Len(Instances(p)) :
                Instances(p)[i].templateId # resp'.templateId
                    => After(p)[i] = Instances(p)[i]
            /\ (NoInstanceFrom(p, resp'.templateId)
                    \/ projects[p].createdBy \notin Users)
                => projects'[p] = projects[p]]_vars

\* a sync has merged one of the two instances of a project; the other one,
\* of another template, had been edited in the project
C27_Witness ==
    /\ resp.op = "sync" /\ resp.status = 200 /\ resp.updatedProjects = 1
    /\ \E p \in DOMAIN projects :
        /\ Len(Instances(p)) = 2
        /\ \E i \in 1..2 :
            /\ Instances(p)[i].templateId = resp.templateId
            /\ Instances(p)[i].syncedAt > Instances(p)[3 - i].syncedAt
            /\ Instances(p)[3 - i].isCustomized
            /\ Len(Instances(p)[3 - i].questions) >= 2

\* the key a merge looks an existing question or option up by: its source
\* id, or (in the merge of assign) its local id when it has none
KeyOf(x, field, orId) == IF orId THEN Or(x[field], x._id) ELSE x[field]

\* the local ids of the elements of xs that have the key k
IdsKeyed(xs, field, orId, k) ==
    {xs[n]._id : n \in {m \in 1..Len(xs) : KeyOf(xs[m], field, orId) = k}}

\* the options of the questions of qs that have the key k
OptionsKeyed(qs, orId, k) ==
    UNION {Range(qs[n].options) :
            n \in {m \in 1..Len(qs) : KeyOf(qs[m], "sourceQuestionId", orId) = k}}

\* every id of ids that is in use before the step is one of kept
OnlyKept(ids, kept) == \A id \in ids : id \in UsedIds => id \in kept

\* in the questions new that a merge made of old and the template questions
\* tqs, a question or option matched to an existing one has its local id,
\* and one without a match has an id that was not in use
IdsStable(new, old, tqs, orId) ==
    \A k \in 1..Len(tqs) :
        LET ids == IdsKeyed(old, "sourceQuestionId", orId, tqs[k]._id)
            olds == OptionsKeyed(old, orId, tqs[k]._id)
        IN  /\ k <= Len(new)
            /\ IF ids # {} THEN new[k]._id \in ids ELSE new[k]._id \notin UsedIds
            /\ \A j \in 1..Len(tqs[k].options) :
                LET oids == {o._id : o \in
                                {x \in olds : KeyOf(x, "sourceOptionId", orId)
                                                = tqs[k].options[j]._id}}
                IN  /\ j <= Len(new[k].options)
                    /\ IF oids # {} THEN new[k].options[j]._id \in oids
                       ELSE new[k].options[j]._id \notin UsedIds

\* C28: in the merge of a re-assign and in the merge of a sync, a question
\* made from a template question that matches an existing question of the
\* instance has that question's local id, and an option that matches an
\* existing option has that option's local id; the ones without a match
\* have ids that were not in use before.
C28_MatchedIdsStable ==
    [][/\ AssignStep =>
            \A i \in InstancesIn(resp'.projectId, resp'.templateId) :
                IdsStable(After(resp'.projectId)[i].questions,
                          Instances(resp'.projectId)[i].questions,
                          templates[resp'.templateId].questions, TRUE)
       /\ Handled /\ resp'.op = "sync" /\ resp'.status = 200 =>
            \A pi \in InstancesOf(resp'.templateId) :
                ~SkipInstance(InstanceAt(pi), resp'.mode) =>
                    IdsStable(After(pi[1])[pi[2]].questions,
                              InstanceAt(pi).questions,
                              templates[resp'.templateId].questions, FALSE)]_vars

\* an instance was merged after its template got one more option on a
\* question: the new option has a later id next to the one that kept its id
C28_Witness ==
    /\ resp.op \in {"assign", "sync"} /\ resp.status = 200
    /\ \E inst \in AllInstances :
        /\ inst.syncedAt >= 2
        /\ inst.templateId = resp.templateId
        /\ \E k \in 1..Len(inst.questions) :
            LET q == inst.questions[k]
            IN  /\ q.sourceQuestionId # Undefined
                /\ q._id < inst._id + 2
                /\ \E j \in 1..Len(q.options) :
                    /\ q.options[j].sourceOptionId # Undefined
                    /\ q.options[j]._id > inst._id + 2
                /\ \E j \in 1..Len(q.options) :
                    q.options[j]._id = inst._id + 2

\* C29: a save of answers that succeeds leaves as the answers of its target
\* exactly the submitted entries that are not empty, in their order, so that
\* no answer stored before stays unless it is submitted again; the target is
\* the instance with the given templateId or, when there is none, the first
\* instance of the project; it is changed in nothing else, and every other
\* instance stays as it was.
C29_AnswersReplaced ==
    [][Handled /\ resp'.op = "answers" /\ resp'.status = 200 =>
        \A u \in Users, p \in {resp'.projectId}, key \in {resp'.templateId} :
            \A i \in 1..Len(Instances(p)) :
                \A answers \in ClientPayloads(Instances(p)[i]) :
                    SaveAnswers(u, p, key, answers, FALSE) =>
                        LET old == Instances(p)
                            byTemplate == {n \in 1..Len(old) :
                                                old[n].templateId = key}
                            k == IF byTemplate # {} THEN First(byTemplate) ELSE 1
                        IN  /\ Len(After(p)) = Len(old)
                            /\ After(p)[k] = [old[k] EXCEPT
                                    !.answers = WellFormedAnswers(answers)]
                            /\ \A j \in 1..Len(old) :
                                j # k => After(p)[j] = old[j]]_vars

\* answers were saved under a template id that no instance of the project
\* has: they are those of the first instance, next to the answers that the
\* second one had
C29_Witness ==
    /\ resp.op = "answers" /\ resp.status = 200
    /\ resp.projectId \in DOMAIN projects
    /\ NoInstanceFrom(resp.projectId, resp.templateId)
    /\ Len(Instances(resp.projectId)) = 2
    /\ Instances(resp.projectId)[1].answers # <<>>
    /\ Instances(resp.projectId)[2].answers # <<>>

\* C30: after every request each project holds at most one instance per
\* templateId; an assign of a template leaves every instance of another
\* template in its place and as it was; an assign without templateId leaves
\* the project without any instance.
C30_OneInstancePerTemplate ==
    [][Handled =>
        /\ \A p \in DOMAIN projects :
            \A i, j \in 1..Len(After(p)) :
                After(p)[i].templateId = After(p)[j].templateId => i = j
        /\ resp'.op = "assign" /\ resp'.status = 200 =>
            LET p == resp'.projectId
            IN  IF resp'.templateId = Undefined
                THEN After(p) = <<>>
                ELSE \A i \in 1..Len(Instances(p)) :
                        Instances(p)[i].templateId # resp'.templateId =>
                            /\ i <= Len(After(p))
                            /\ After(p)[i] = Instances(p)[i]]_vars

\* a template was assigned again to a project that holds an instance of it
\* and, before it, an instance of another template with answers
C30_Witness ==
    /\ resp.op = "assign" /\ resp.status = 200 /\ resp.again
    /\ resp.projectId \in DOMAIN projects
    /\ LET insts == Instances(resp.projectId)
       IN  /\ Len(insts) = 2
           /\ insts[2].templateId = resp.templateId
           /\ insts[1].templateId # resp.templateId
           /\ insts[1].answers # <<>>

\* the sync in flight ends a round of its loop in this step
SyncRound ==
    /\ inflight.sync.op = "sync"
    /\ IF inflight'.sync.op = "sync"
       THEN inflight'.sync.k # inflight.sync.k ELSE TRUE

\* the answers of each instance, in array order
AnswersIn(insts) == [i \in 1..Len(insts) |-> insts[i].answers]

\* C25: answers that were saved to a project after a sync read it, while
\* that sync is in flight, are not lost to the sync: no round of the sync's
\* loop changes the answers of a project whose stored answers are no longer
\* the ones the sync read.
C25_SyncKeepsSavedAnswers ==
    [][SyncRound =>
        \A p \in DOMAIN inflight.sync.docs :
            AnswersIn(Instances(p))
                    # AnswersIn(inflight.sync.docs[p].designQuestionnaires)
                => AnswersIn(After(p)) = AnswersIn(Instances(p))]_vars

\* a sync read the projects, answers were then saved to one of them, and the
\* sync's save of that project threw: these two requests are all that ran
C25_Witness ==
    /\ resp.op = "sync" /\ resp.status = 500
    /\ served = 2 /\ inflight = NothingInFlight
    /\ \E p \in DOMAIN projects :
        \E i \in 1..Len(Instances(p)) : Instances(p)[i].answers # <<>>

\* C26: an edit that completes on an instance after a safe sync read the
\* project and before it saves it is not undone: the round of the sync's
\* loop leaves the instance customized and with the questions the edit
\* stored.
C26_SafeSyncKeepsCustomization ==
    [][SyncRound /\ inflight.sync.mode = "safe" =>
        \A p \in DOMAIN inflight.sync.docs :
            \A i \in 1..Len(Instances(p)) :
                /\ Instances(p)[i].isCustomized
                /\ ~inflight.sync.docs[p].designQuestionnaires[i].isCustomized
                => /\ After(p)[i].isCustomized
                   /\ After(p)[i].questions = Instances(p)[i].questions]_vars

=============================================================================
